---- MODULE Spec2Model ----
(***************************************************************************)
(* State-machine model of the daily trading-signal scanner:                *)
(*   - app/services/strategy_engine.py  (StrategyEngine)                   *)
(*   - app/services/fmp_client.py       (FMPClient)                        *)
(*   - app/api/routes.py                (HTTP handlers)                    *)
(*   - app/db/models.py, app/db/database.py (tables, sessions)             *)
(*                                                                         *)
(* The durable store is PostgreSQL at its default isolation level, READ    *)
(* COMMITTED: every request handler owns one session (one transaction at a *)
(* time); a statement sees the rows committed before it starts plus the    *)
(* session's own uncommitted writes; a write that touches a row or a       *)
(* unique key held by another open transaction waits for that transaction  *)
(* to end.  One action of the model is one database statement or one       *)
(* provider call of a handler.                                             *)
(*                                                                         *)
(* Dates are day ordinals (1 = 2025-01-01, 0 = 2024-12-31), prices are     *)
(* whole dollars, instants are hours on one clock.                         *)
(***************************************************************************)
EXTENDS Integers, Sequences, FiniteSets, TLC

(***************************************************************************)
(* Program constants                                                       *)
(***************************************************************************)
\* Decimal("-0.30"), Decimal("-0.05"), Decimal("-0.10") in hundredths.
ENTRY_RETURN_MIN == -30
ENTRY_RETURN_MAX == -5
STOP_LOSS_THRESHOLD == -10
MAX_HOLDING_DAYS == 50
\* Settings.sp500_cache_ttl_hours
sp500_cache_ttl_hours == 24
\* get_historical_prices(symbol, timeseries=20)
timeseries == 20
\* HTTP status codes the client distinguishes
HTTP_OK == 200
HTTP_RATE_LIMIT == 429
\* a client error and a server error the provider may answer
HTTP_FORBIDDEN == 403
HTTP_SERVER_ERROR == 500
\* stop_after_attempt(3)
max_attempt_number == 3
\* Python's None / SQL NULL in a numeric, date or timestamp column
None == -1
\* NULL in a string column
NoneStr == "NULL"

OPEN == "OPEN"
CLOSED == "CLOSED"
STOP_LOSS == "STOP_LOSS"
TIME_EXIT == "TIME_EXIT"
ENTRY == "ENTRY"
EXIT == "EXIT"

(***************************************************************************)
(* Bounds of the model                                                     *)
(***************************************************************************)
\* The clock stops advancing at MaxClock hours.
MaxClock == 24
\* Job invocations started in one behaviour.
MaxRuns == 3
\* mark-sent requests started in one behaviour.
MaxMarks == 2
\* Pending-alert listings asked for in one behaviour.
MaxLists == 1

Symbols == {"A", "B"}
\* One clock step, in hours.
Durations == {12}

(***************************************************************************)
(* date.isoformat() and strftime("%Y-%m-%d"): "YYYY-MM-DD", month and day  *)
(* padded to two digits.                                                   *)
(***************************************************************************)
DaysInMonth(m) ==
    CASE m \in {1, 3, 5, 7, 8, 10, 12} -> 31
      [] m = 2 -> 28
      [] OTHER -> 30

RECURSIVE MonthDay(_, _)
MonthDay(m, rest) ==
    IF rest < DaysInMonth(m) THEN <<2025, m, rest + 1>>
    ELSE MonthDay(m + 1, rest - DaysInMonth(m))

\* "{:02d}"
Pad2(n) == IF n < 10 THEN "0" \o ToString(n) ELSE ToString(n)

isoformat(d) ==
    LET ymd == IF d = 0 THEN <<2024, 12, 31>> ELSE MonthDay(1, d - 1)
    IN  ToString(ymd[1]) \o "-" \o Pad2(ymd[2]) \o "-" \o Pad2(ymd[3])

(***************************************************************************)
(* Decimal arithmetic.  A quotient a / b is kept exact as the pair <<a,b>>  *)
(* (b > 0); Decimal's 28 significant digits hold every quotient of two     *)
(* prices of the model to far more digits than separate it from a          *)
(* threshold, so the comparisons below are the ones Python makes.          *)
(***************************************************************************)
\* x / y - 1 for y > 0
ReturnOf(x, y) == <<x - y, y>>
\* r <= t / 100
DecLE(r, t) == r[1] * 100 <= t * r[2]
\* r >= t / 100
DecGE(r, t) == r[1] * 100 >= t * r[2]

\* round-half-even of n / d (d > 0), the rounding of Decimal's "{:.2f}"
RoundHalfEven(n, d) ==
    LET q == n \div d
        r == n % d
    IN  IF 2 * r < d THEN q
        ELSE IF 2 * r > d THEN q + 1
        ELSE IF q % 2 = 0 THEN q ELSE q + 1

\* r * 100 rounded to two decimals: the percentage in hundredths of a percent
Percent2f(r) == RoundHalfEven(r[1] * 10000, r[2])

\* "{:.2f}" of the number of h hundredths; a negative number that rounds to
\* zero keeps its sign
Format2f(h, negative) ==
    LET a == IF h < 0 THEN -h ELSE h
    IN  (IF negative THEN "-" ELSE "") \o ToString(a \div 100) \o "."
            \o Pad2(a % 100)

\* f"{r * 100:.2f}"
FormatPercent(r) == Format2f(Percent2f(r), r[1] < 0)


(***************************************************************************)
(* Event keys and messages: the strings the f-strings build.               *)
(***************************************************************************)
\* (mutant) the exit key without the entry date
_generate_exit_event_key_NoEntryDate(symbol, entry_date, exit_date, exit_reason) ==
    "EXIT|" \o symbol \o "|" \o isoformat(exit_date) \o "|" \o exit_reason

_generate_entry_event_key(symbol, entry_date) ==
    "ENTRY|" \o symbol \o "|" \o isoformat(entry_date)

_generate_exit_event_key(symbol, entry_date, exit_date, exit_reason) ==
    "EXIT|" \o symbol \o "|" \o isoformat(entry_date) \o "|"
        \o isoformat(exit_date) \o "|" \o exit_reason

\* (mutant) the return reported as a fraction, not as a percentage
_format_entry_message_Fraction(symbol, as_of, earnings_return, entry_price) ==
    "[ENTRY] " \o symbol \o " " \o isoformat(as_of) \o "\n"
        \o "Earnings day return: "
        \o Format2f(RoundHalfEven(earnings_return[1] * 100, earnings_return[2]),
                    earnings_return[1] < 0) \o "%\n"
        \o "Entry price (close): " \o Format2f(entry_price * 100, FALSE)

_format_entry_message(symbol, as_of, earnings_return, entry_price) ==
    "[ENTRY] " \o symbol \o " " \o isoformat(as_of) \o "\n"
        \o "Earnings day return: " \o FormatPercent(earnings_return) \o "%\n"
        \o "Entry price (close): " \o Format2f(entry_price * 100, FALSE)

_format_exit_message(symbol, exit_date, exit_reason, pnl, exit_price, holding_days) ==
    LET reason_label ==
            IF exit_reason = STOP_LOSS THEN "STOP_LOSS" ELSE "TIME_EXIT"
    IN  "[EXIT-" \o reason_label \o "] " \o symbol \o " "
            \o isoformat(exit_date) \o "\n"
            \o "PnL: " \o FormatPercent(pnl) \o "%\n"
            \o "Exit price (close): " \o Format2f(exit_price * 100, FALSE) \o "\n"
            \o "Holding days: " \o ToString(holding_days)

(***************************************************************************)
(* The data provider (FMP).  A response is [status, kind, items]: the HTTP *)
(* status, whether the JSON body is a list or an object, and the body's    *)
(* records.                                                                *)
(***************************************************************************)
ListResponse(items) == [status |-> HTTP_OK, kind |-> "list", items |-> items]
\* a JSON object that carries the records under its "historical" field
ObjectResponse(items) == [status |-> HTTP_OK, kind |-> "object", items |-> items]
ErrorResponse(status) == [status |-> status, kind |-> "list", items |-> <<>>]

\* client.get raised httpx.TimeoutException: there is no response
TimeoutResponse == [status |-> None, kind |-> "timeout", items |-> <<>>]

\* response.raise_for_status(): HTTPStatusError on every status that is not
\* a 2xx
raise_for_status(status) == status < 200 \/ status >= 300

\* one execution of the body of FMPClient._request: the exception raised
\* ("" when none) and the decoded body
_request_once(resp) ==
    IF resp.kind = "timeout"
    THEN [raised |-> "TimeoutException", kind |-> "list", items |-> <<>>]
    ELSE IF resp.status = HTTP_RATE_LIMIT
    THEN [raised |-> "FMPRateLimitError", kind |-> "list", items |-> <<>>]
    ELSE IF raise_for_status(resp.status)
    THEN [raised |-> "HTTPStatusError", kind |-> "list", items |-> <<>>]
    ELSE [raised |-> "", kind |-> resp.kind, items |-> resp.items]

\* (mutant) every exception of the body is retried
retry_if_exception_type_Any(raised) == raised # ""

\* retry=retry_if_exception_type((HTTPStatusError, TimeoutException))
retry_if_exception_type(raised) ==
    raised \in {"HTTPStatusError", "TimeoutException"}

\* (mutant) the decorator gives up after the second attempt
stop_after_attempt_Two(attempt_number) == attempt_number >= 2

\* stop=stop_after_attempt(3)
stop_after_attempt(attempt_number) == attempt_number >= max_attempt_number

\* wait=wait_exponential(multiplier=1, min=2, max=10): the seconds slept
\* after attempt attempt_number failed
wait_exponential(attempt_number) ==
    LET exp == 2 ^ (attempt_number - 1)
        capped == IF exp > 10 THEN 10 ELSE exp
    IN  IF capped < 2 THEN 2 ELSE capped

\* FMPClient._request once its retries are spent, the provider answering
\* every attempt alike: the exception raised ("" when none) and the
\* decoded body of the last attempt
_request(resp) == _request_once(resp)

\* data[:n]
Take(seq, n) == SubSeq(seq, 1, IF Len(seq) < n THEN Len(seq) ELSE n)

\* [x for x in seq if Keep(x)]
RECURSIVE Filter(_, _)
Filter(seq, keep) ==
    IF seq = <<>> THEN <<>>
    ELSE IF Head(seq) \in keep THEN <<Head(seq)>> \o Filter(Tail(seq), keep)
    ELSE Filter(Tail(seq), keep)

Range(seq) == {seq[i] : i \in DOMAIN seq}

\* items carry their symbol; "" stands for a missing or empty "symbol" field
SymbolsOf(items) == Filter(items, Range(items) \ {""})

get_sp500_constituents(resp) ==
    LET data == _request(resp)
    IN  IF data.raised # "" THEN [raised |-> data.raised, value |-> <<>>]
        ELSE IF data.kind # "list" THEN [raised |-> "", value |-> <<>>]
        ELSE [raised |-> "", value |-> SymbolsOf(data.items)]

get_earnings_calendar(resp) ==
    LET data == _request(resp)
    IN  IF data.raised # "" THEN [raised |-> data.raised, value |-> <<>>]
        ELSE IF data.kind # "list" THEN [raised |-> "", value |-> <<>>]
        ELSE [raised |-> "", value |-> SymbolsOf(data.items)]

get_historical_prices(resp, n) ==
    LET data == _request(resp)
    IN  IF data.raised # "" THEN [raised |-> data.raised, value |-> <<>>]
        ELSE IF data.kind # "list" THEN [raised |-> "", value |-> <<>>]
        ELSE [raised |-> "", value |-> Take(data.items, n)]

\* index of the first record of the window dated as_of_str, 0 when none
FirstIndex(historical, as_of_str) ==
    LET hits == {i \in DOMAIN historical : historical[i].date = as_of_str}
    IN  IF hits = {} THEN 0
        ELSE CHOOSE i \in hits : \A k \in hits : i <= k

NoPrice(raised) ==
    [raised |-> raised, found |-> FALSE, as_of_close |-> None, prev_close |-> None]

\* (mutant) the closes are returned without the test for a missing close
get_price_data_for_date_NoCloseCheck(resp, as_of) ==
    LET h == get_historical_prices(resp, timeseries)
        historical == h.value
        as_of_idx == FirstIndex(historical, isoformat(as_of))
    IN  IF h.raised # "" THEN NoPrice(h.raised)
        ELSE IF historical = <<>> THEN NoPrice("")
        ELSE IF as_of_idx = 0 THEN NoPrice("")
        ELSE IF as_of_idx + 1 > Len(historical) THEN NoPrice("")
        ELSE [raised |-> "", found |-> TRUE,
              as_of_close |-> historical[as_of_idx].close,
              prev_close |-> historical[as_of_idx + 1].close]

get_price_data_for_date(resp, as_of) ==
    LET h == get_historical_prices(resp, timeseries)
        historical == h.value
        as_of_idx == FirstIndex(historical, isoformat(as_of))
    IN  IF h.raised # "" THEN NoPrice(h.raised)
        ELSE IF historical = <<>> THEN NoPrice("")
        ELSE IF as_of_idx = 0 THEN NoPrice("")
        ELSE IF as_of_idx + 1 > Len(historical) THEN NoPrice("")
        ELSE IF historical[as_of_idx].close = None
                \/ historical[as_of_idx + 1].close = None THEN NoPrice("")
        ELSE [raised |-> "", found |-> TRUE,
              as_of_close |-> historical[as_of_idx].close,
              prev_close |-> historical[as_of_idx + 1].close]

get_close_price(resp, as_of) ==
    LET h == get_historical_prices(resp, timeseries)
        historical == h.value
        idx == FirstIndex(historical, isoformat(as_of))
    IN  IF h.raised # "" THEN NoPrice(h.raised)
        ELSE IF historical = <<>> THEN NoPrice("")
        ELSE IF idx = 0 THEN NoPrice("")
        ELSE IF historical[idx].close = None THEN NoPrice("")
        ELSE [raised |-> "", found |-> TRUE,
              as_of_close |-> historical[idx].close, prev_close |-> None]

(***************************************************************************)
(* The signal rules of scan_entries and scan_exits                         *)
(***************************************************************************)
\* Decimal division raises (DivisionByZero, InvalidOperation) on a zero divisor
DivisionRaises(divisor) == divisor = 0

\* (mutant) the range without its end points
EntryCondition_Exclusive(earnings_return) ==
    /\ ~DecLE(earnings_return, ENTRY_RETURN_MIN)
    /\ ~DecGE(earnings_return, ENTRY_RETURN_MAX)

\* ENTRY_RETURN_MIN <= earnings_return <= ENTRY_RETURN_MAX
EntryCondition(earnings_return) ==
    /\ DecGE(earnings_return, ENTRY_RETURN_MIN)
    /\ DecLE(earnings_return, ENTRY_RETURN_MAX)

\* (mutant) the days counted with both end days
HoldingDays_Inclusive(as_of, entry_date) == as_of - entry_date + 1

\* (as_of - entry_date).days
HoldingDays(as_of, entry_date) == as_of - entry_date

\* (mutant) the stop at a loss of 0%
ExitReasonOf_StopAtZero(pnl, holding_days) ==
    IF DecLE(pnl, 0) THEN STOP_LOSS
    ELSE IF holding_days >= MAX_HOLDING_DAYS THEN TIME_EXIT
    ELSE NoneStr

\* (mutant) the two branches in the other order
ExitReasonOf_TimeFirst(pnl, holding_days) ==
    IF holding_days >= MAX_HOLDING_DAYS THEN TIME_EXIT
    ELSE IF DecLE(pnl, STOP_LOSS_THRESHOLD) THEN STOP_LOSS
    ELSE NoneStr

\* the if / elif of scan_exits: the exit reason, NoneStr when none
ExitReasonOf(pnl, holding_days) ==
    IF DecLE(pnl, STOP_LOSS_THRESHOLD) THEN STOP_LOSS
    ELSE IF holding_days >= MAX_HOLDING_DAYS THEN TIME_EXIT
    ELSE NoneStr


(***************************************************************************)
(* State                                                                   *)
(***************************************************************************)
\* request slots of POST /jobs/daily and of POST /alerts/{id}/mark-sent
Jobs == {1, 2}
Reqs == {1, 2}

VARIABLES
    clock,          \* the wall clock and the database's now(), in hours
    positions,      \* committed rows of table positions
    alerts,         \* committed rows of table alerts
    symbols_cache,  \* committed rows of table symbols_cache
    sp500,          \* provider: response of sp500-constituent
    calendar,       \* provider: response of earnings-calendar, per date
    eod,            \* provider: response of historical-price-eod/full, per symbol
    pc,             \* per job slot: the statement the handler is at
    loc,            \* per job slot: the handler's local variables
    tx,             \* per job slot: the session's uncommitted writes
    req,            \* per mark-sent slot: the handler's position and locals
    runs,           \* job invocations started so far
    marks,          \* mark-sent requests started so far
    http,           \* one FMPClient._request call: its attempts so far
    hist            \* history: what the last finished handler left

vars == <<clock, positions, alerts, symbols_cache, sp500, calendar, eod,
          pc, loc, tx, req, runs, marks, http, hist>>

store == <<positions, alerts, symbols_cache>>
provider == <<sp500, calendar, eod, http>>

(***************************************************************************)
(* Rows (app/db/models.py)                                                 *)
(***************************************************************************)
\* a row of positions as INSERTed by scan_entries; created_at and
\* updated_at take the server default now(), the transaction's start
Position(id, symbol, entry_date, entry_price, now) ==
    [id |-> id, symbol |-> symbol, entry_date |-> entry_date,
     entry_price |-> entry_price, status |-> OPEN,
     exit_date |-> None, exit_price |-> None, exit_reason |-> NoneStr,
     created_at |-> now, updated_at |-> now]

Alert(id, event_key, alert_type, symbol, as_of, message, now) ==
    [id |-> id, event_key |-> event_key, alert_type |-> alert_type,
     symbol |-> symbol, as_of |-> as_of, message |-> message,
     created_at |-> now, sent_at |-> None]

SymbolsCache(symbol, updated_at) == [symbol |-> symbol, updated_at |-> updated_at]

\* uuid.uuid4(): an identifier no row of the table carries, committed or not;
\* the smallest unused number stands for it
uuid4(used) ==
    CHOOSE n \in 1..(Cardinality(used) + 1) :
        n \notin used /\ \A m \in 1..(n - 1) : m \in used

(***************************************************************************)
(* Sessions and transactions                                               *)
(***************************************************************************)
\* del_wait: the rows a DELETE saw at its start and waits for, another
\* transaction having deleted them; failed: a statement of the transaction
\* raised, the server has aborted it and refuses every further statement
\* until the transaction ends
EmptyTx ==
    [began |-> None, ins_pos |-> {}, upd_pos |-> {}, ins_alerts |-> {},
     del_cache |-> {}, ins_cache |-> {}, del_wait |-> {}, failed |-> FALSE]

\* the session begins a transaction at its first statement
Begin(t) == IF t.began = None THEN [t EXCEPT !.began = clock] ELSE t

\* now() inside the transaction of session j
TxNow(j) == IF tx[j].began = None THEN clock ELSE tx[j].began

\* UPDATE positions SET status, exit_date, exit_price, exit_reason
\* (and updated_at, by onupdate) WHERE id = u.id
ApplyUpdates(row, upds) ==
    IF \E u \in upds : u.id = row.id
    THEN LET u == CHOOSE u \in upds : u.id = row.id
         IN  [row EXCEPT !.status = u.status, !.exit_date = u.exit_date,
                         !.exit_price = u.exit_price,
                         !.exit_reason = u.exit_reason,
                         !.updated_at = u.updated_at]
    ELSE row

\* what a statement of session j sees
VisiblePositions(j) ==
    {ApplyUpdates(r, tx[j].upd_pos) : r \in positions} \cup tx[j].ins_pos
VisibleAlerts(j) == alerts \cup tx[j].ins_alerts
VisibleCache(j) ==
    {c \in symbols_cache : c.symbol \notin tx[j].del_cache} \cup tx[j].ins_cache

\* (mutant) the COMMIT stores every alert as unsent
CommitAlerts_ResetSent(j) ==
    {[a EXCEPT !.sent_at = None] : a \in VisibleAlerts(j)}

\* (mutant) the COMMIT leaves the alerts of the session out
CommitAlerts_Never(j) == alerts

\* the tables after COMMIT of session j: the server answers the COMMIT of
\* an aborted transaction with a rollback, and no error
CommitPositions(j) == IF tx[j].failed THEN positions ELSE VisiblePositions(j)
CommitAlerts(j) == IF tx[j].failed THEN alerts ELSE VisibleAlerts(j)
CommitCache(j) == IF tx[j].failed THEN symbols_cache ELSE VisibleCache(j)

AllPositionIds == {r.id : r \in positions \cup UNION {tx[k].ins_pos : k \in Jobs}}
AllAlertIds == {r.id : r \in alerts \cup UNION {tx[k].ins_alerts : k \in Jobs}}

\* (mutant) no unique index on (symbol, entry_date): an insert waits for nobody
PositionKeyHeld_NoIndex(j, symbol, entry_date) == FALSE

\* another open transaction holds the unique key (symbol, entry_date): it
\* inserted it, or it updated the committed row that carries it
PositionKeyHeld(j, symbol, entry_date) ==
    \E k \in Jobs \ {j} :
        \/ \E r \in tx[k].ins_pos :
              r.symbol = symbol /\ r.entry_date = entry_date
        \/ \E u \in tx[k].upd_pos : \E r \in positions :
              r.id = u.id /\ r.symbol = symbol /\ r.entry_date = entry_date

\* another open transaction holds the unique key event_key: a job inserted
\* it, or a mark-sent request updated the committed row that carries it
AlertKeyHeld(j, event_key) ==
    \/ \E k \in Jobs \ {j} :
          \E r \in tx[k].ins_alerts : r.event_key = event_key
    \/ \E q \in Reqs : \E a \in alerts :
          /\ req[q].pc = "commit"
          /\ req[q].alert_id = a.id
          /\ a.event_key = event_key

\* another open transaction holds the row lock of position id
PositionRowHeld(j, id) ==
    \E k \in Jobs \ {j} : \E u \in tx[k].upd_pos : u.id = id

\* (mutant) ON CONFLICT DO UPDATE: a stored row with the key is reopened
InsertPosition_Reopen(j, symbol, entry_date, entry_price) ==
    LET t == Begin(tx[j])
    IN  IF \E r \in VisiblePositions(j) :
              r.symbol = symbol /\ r.entry_date = entry_date
        THEN [t EXCEPT !.upd_pos = @ \cup
                {[id |-> r.id, status |-> OPEN, exit_date |-> None,
                  exit_price |-> None, exit_reason |-> NoneStr,
                  updated_at |-> t.began] :
                    r \in {q \in positions : q.symbol = symbol
                                              /\ q.entry_date = entry_date}}]
        ELSE [t EXCEPT !.ins_pos = @ \cup
                {Position(uuid4(AllPositionIds), symbol, entry_date,
                          entry_price, t.began)}]

\* (mutant) the insert adds its row whether or not the key is there
InsertPosition_Plain(j, symbol, entry_date, entry_price) ==
    LET t == Begin(tx[j])
    IN  [t EXCEPT !.ins_pos = @ \cup
            {Position(uuid4(AllPositionIds), symbol, entry_date,
                      entry_price, t.began)}]

\* INSERT INTO positions ... ON CONFLICT (symbol, entry_date) DO NOTHING
\* by session j: its transaction afterwards
InsertPosition(j, symbol, entry_date, entry_price) ==
    LET t == Begin(tx[j])
    IN  IF \E r \in VisiblePositions(j) :
              r.symbol = symbol /\ r.entry_date = entry_date
        THEN t
        ELSE [t EXCEPT !.ins_pos = @ \cup
                {Position(uuid4(AllPositionIds), symbol, entry_date,
                          entry_price, t.began)}]

\* (mutant) the insert does not look for the key: every insert adds a row
InsertAlertRowcount_NoConflictCheck(j, event_key) == 1

\* INSERT INTO alerts ... ON CONFLICT (event_key) DO NOTHING: result.rowcount
InsertAlertRowcount(j, event_key) ==
    IF \E r \in VisibleAlerts(j) : r.event_key = event_key THEN 0 ELSE 1

\* (mutant) a plain INSERT, without ON CONFLICT DO NOTHING
InsertAlert_Plain(j, event_key, alert_type, symbol, as_of, message) ==
    LET t == Begin(tx[j])
    IN  [t EXCEPT !.ins_alerts = @ \cup
            {Alert(uuid4(AllAlertIds), event_key, alert_type, symbol,
                   as_of, message, t.began)}]

InsertAlert(j, event_key, alert_type, symbol, as_of, message) ==
    LET t == Begin(tx[j])
    IN  IF InsertAlertRowcount(j, event_key) = 0
        THEN t
        ELSE [t EXCEPT !.ins_alerts = @ \cup
                {Alert(uuid4(AllAlertIds), event_key, alert_type, symbol,
                       as_of, message, t.began)}]

\* (mutant) the UPDATE without exit_reason among its values
UpdatePosition_NoReason(j, id, exit_date, exit_price, exit_reason) ==
    LET t == Begin(tx[j])
    IN  IF \E r \in tx[j].ins_pos : r.id = id
        THEN [t EXCEPT !.ins_pos =
                {IF r.id = id
                 THEN [r EXCEPT !.status = CLOSED, !.exit_date = exit_date,
                                !.exit_price = exit_price,
                                !.updated_at = t.began]
                 ELSE r : r \in @}]
        ELSE IF \E r \in positions : r.id = id
        THEN [t EXCEPT !.upd_pos = {u \in @ : u.id # id} \cup
                {[id |-> id, status |-> CLOSED, exit_date |-> exit_date,
                  exit_price |-> exit_price, exit_reason |-> NoneStr,
                  updated_at |-> t.began]}]
        ELSE t

\* UPDATE positions SET ... WHERE id = :id
UpdatePosition(j, id, exit_date, exit_price, exit_reason) ==
    LET t == Begin(tx[j])
    IN  IF \E r \in tx[j].ins_pos : r.id = id
        THEN [t EXCEPT !.ins_pos =
                {IF r.id = id
                 THEN [r EXCEPT !.status = CLOSED, !.exit_date = exit_date,
                                !.exit_price = exit_price,
                                !.exit_reason = exit_reason,
                                !.updated_at = t.began]
                 ELSE r : r \in @}]
        ELSE IF \E r \in positions : r.id = id
        THEN [t EXCEPT !.upd_pos = {u \in @ : u.id # id} \cup
                {[id |-> id, status |-> CLOSED, exit_date |-> exit_date,
                  exit_price |-> exit_price, exit_reason |-> exit_reason,
                  updated_at |-> t.began]}]
        ELSE t

\* result.scalars().all() of a SELECT without ORDER BY: the rows, in an
\* order that the server chooses
scalars_all(rows) ==
    {s \in [1..Cardinality(rows) -> rows] :
        \A i, k \in DOMAIN s : i # k => s[i] # s[k]}

\* (mutant) the newest element
Min_Newest(S) == CHOOSE x \in S : \A y \in S : x >= y

Min(S) == CHOOSE x \in S : \A y \in S : x <= y


(***************************************************************************)
(* POST /jobs/daily: StrategyEngine.run_daily_job, one statement at a time *)
(***************************************************************************)
NoItem ==
    [symbol |-> "", id |-> None, entry_date |-> None, price |-> None,
     ret |-> <<0, 1>>, reason |-> NoneStr, holding_days |-> 0]

InitLoc ==
    [as_of |-> None, sp500_symbols |-> {}, symbols |-> <<>>, todo |-> <<>>,
     candidates |-> <<>>, open_positions |-> <<>>, item |-> NoItem,
     cached |-> {}, now |-> None,
     new_entries |-> 0, new_exits |-> 0, errors |-> {}]

\* logger.error(f"Error processing {symbol}: {e}") and
\* logger.error(f"Error processing exit for {position.symbol}: {e}")
EntryError(symbol) == <<"Error processing", symbol>>
ExitError(symbol) == <<"Error processing exit for", symbol>>

\* the request arrives: get_db opens a session, the engine is built
run_daily_job(j, as_of) ==
    /\ pc[j] \in {"idle", "done", "failed", "killed"}
    /\ runs < MaxRuns
    /\ runs' = runs + 1
    /\ pc' = [pc EXCEPT ![j] = "get_sp500_symbols"]
    /\ loc' = [loc EXCEPT ![j] = [InitLoc EXCEPT !.as_of = as_of]]
    /\ tx' = [tx EXCEPT ![j] = EmptyTx]
    /\ UNCHANGED <<clock, store, provider, req, marks>>

\* (mutant) the exception is swallowed and the job goes on with scan_exits
Raise_GoesOn(j) ==
    /\ pc' = [pc EXCEPT ![j] = "scan_exits"]
    /\ tx' = tx

\* an exception leaves run_daily_job: get_db rolls the session back
Raise(j) ==
    /\ pc' = [pc EXCEPT ![j] = "failed"]
    /\ tx' = [tx EXCEPT ![j] = EmptyTx]

\* (mutant) the kill lets the statements executed so far take effect
Kill_KeepsStatements(j) ==
    /\ pc[j] \notin {"idle", "done", "failed", "killed"}
    /\ pc' = [pc EXCEPT ![j] = "killed"]
    /\ positions' = CommitPositions(j)
    /\ alerts' = CommitAlerts(j)
    /\ symbols_cache' = CommitCache(j)
    /\ tx' = [tx EXCEPT ![j] = EmptyTx]
    /\ UNCHANGED <<clock, provider, loc, req, runs, marks>>

\* the process is killed while the handler runs: the handler takes no
\* further step, the connection is gone and the server rolls back the
\* session's open transaction
Kill(j) ==
    /\ pc[j] \notin {"idle", "done", "failed", "killed"}
    /\ pc' = [pc EXCEPT ![j] = "killed"]
    /\ tx' = [tx EXCEPT ![j] = EmptyTx]
    /\ UNCHANGED <<clock, store, provider, loc, req, runs, marks>>

\* get_sp500_symbols up to the provider call: SELECT the cache; a cache that
\* is non-empty and whose oldest entry is younger than the ttl is returned
get_sp500_symbols(j) ==
    /\ pc[j] = "get_sp500_symbols"
    /\ LET cached == VisibleCache(j)
           fresh == /\ cached # {}
                    /\ clock - Min({c.updated_at : c \in cached})
                          < sp500_cache_ttl_hours
       IN  IF fresh
           THEN /\ loc' = [loc EXCEPT ![j].sp500_symbols =
                                           {c.symbol : c \in cached}]
                /\ pc' = [pc EXCEPT ![j] = "get_earnings_calendar"]
           ELSE /\ loc' = [loc EXCEPT ![j].cached = cached]
                /\ pc' = [pc EXCEPT ![j] = "get_sp500_constituents"]
    /\ tx' = [tx EXCEPT ![j] = Begin(@)]
    /\ UNCHANGED <<clock, store, provider, req, runs, marks>>

\* (mutant) scan_entries goes on with an empty universe
get_sp500_symbols_fetch_NoAbort(j) ==
    /\ pc[j] = "get_sp500_constituents"
    /\ LET cached_symbols == {c.symbol : c \in loc[j].cached}
           symbols == get_sp500_constituents(sp500)
       IN  IF symbols.raised # ""
           THEN Raise(j) /\ UNCHANGED loc
           ELSE IF symbols.value = <<>>
           THEN /\ loc' = [loc EXCEPT ![j].sp500_symbols = cached_symbols]
                /\ pc' = [pc EXCEPT ![j] = "get_earnings_calendar"]
                /\ UNCHANGED tx
           ELSE /\ loc' = [loc EXCEPT ![j].symbols = symbols.value,
                                      ![j].todo = symbols.value]
                /\ pc' = [pc EXCEPT ![j] = "cache_delete"]
                /\ UNCHANGED tx
    /\ UNCHANGED <<clock, store, provider, req, runs, marks>>

\* symbols = await self.fmp.get_sp500_constituents(): the exception of a
\* failed fetch leaves the job; an empty answer falls back on the rows the
\* SELECT returned, and scan_entries returns 0 when there are none; a list
\* starts the refresh
get_sp500_symbols_fetch(j) ==
    /\ pc[j] = "get_sp500_constituents"
    /\ LET cached_symbols == {c.symbol : c \in loc[j].cached}
           symbols == get_sp500_constituents(sp500)
       IN  IF symbols.raised # ""
           THEN Raise(j) /\ UNCHANGED loc
           ELSE IF symbols.value = <<>>
           THEN /\ loc' = [loc EXCEPT ![j].sp500_symbols = cached_symbols]
                /\ pc' = [pc EXCEPT ![j] =
                            IF cached_symbols = {} THEN "scan_exits"
                            ELSE "get_earnings_calendar"]
                /\ UNCHANGED tx
           ELSE /\ loc' = [loc EXCEPT ![j].symbols = symbols.value,
                                      ![j].todo = symbols.value]
                /\ pc' = [pc EXCEPT ![j] = "cache_delete"]
                /\ UNCHANGED tx
    /\ UNCHANGED <<clock, store, provider, req, runs, marks>>

\* another open transaction deleted or inserted the cache row of symbol
CacheKeyHeld(j, symbol) ==
    \E k \in Jobs \ {j} :
        \/ symbol \in tx[k].del_cache
        \/ \E c \in tx[k].ins_cache : c.symbol = symbol

\* (mutant) the refresh inserts without deleting the old rows
cache_delete_Nothing(j) ==
    /\ pc[j] = "cache_delete"
    /\ tx' = [tx EXCEPT ![j] = Begin(@)]
    /\ pc' = [pc EXCEPT ![j] = "cache_insert"]
    /\ UNCHANGED <<clock, store, provider, loc, req, runs, marks>>

\* DELETE FROM symbols_cache: the statement works on the rows committed
\* when it starts; it deletes them at once, or waits when another open
\* transaction has deleted one of them
cache_delete(j) ==
    /\ pc[j] = "cache_delete"
    /\ IF \A c \in symbols_cache : ~CacheKeyHeld(j, c.symbol)
       THEN /\ tx' = [tx EXCEPT ![j] =
                  [Begin(@) EXCEPT
                      !.del_cache = {c.symbol : c \in symbols_cache},
                      !.ins_cache = {}]]
            /\ pc' = [pc EXCEPT ![j] = "cache_insert"]
       ELSE /\ tx' = [tx EXCEPT ![j] =
                  [Begin(@) EXCEPT !.del_wait = symbols_cache]]
            /\ pc' = [pc EXCEPT ![j] = "cache_delete_wait"]
    /\ UNCHANGED <<clock, store, provider, loc, req, runs, marks>>

\* the other transaction has ended: the DELETE goes on with the rows it saw
\* at its start that are still there (all of them after a rollback, none
\* of those the other transaction deleted after its commit); rows
\* committed since its start are not its rows
cache_delete_resume(j) ==
    /\ pc[j] = "cache_delete_wait"
    /\ \A c \in tx[j].del_wait : ~CacheKeyHeld(j, c.symbol)
    /\ tx' = [tx EXCEPT ![j].del_cache = {c.symbol : c \in tx[j].del_wait},
                         ![j].ins_cache = {},
                         ![j].del_wait = {}]
    /\ pc' = [pc EXCEPT ![j] = "cache_insert"]
    /\ UNCHANGED <<clock, store, provider, loc, req, runs, marks>>

\* (mutant) a rejected insert ends the refresh with a COMMIT of the
\* statements executed so far
cache_insert_CommitsOnError(j) ==
    /\ pc[j] = "cache_insert"
    /\ loc[j].todo # <<>>
    /\ LET symbol == Head(loc[j].todo)
       IN  IF CacheKeyHeld(j, symbol)
           THEN /\ loc' = [loc EXCEPT ![j].now = clock]
                /\ pc' = [pc EXCEPT ![j] = "cache_insert_wait"]
                /\ UNCHANGED <<tx, store>>
           ELSE IF \E c \in VisibleCache(j) : c.symbol = symbol
           THEN /\ Raise(j)
                /\ symbols_cache' = VisibleCache(j)
                /\ UNCHANGED <<loc, positions, alerts>>
           ELSE /\ tx' = [tx EXCEPT ![j].ins_cache =
                             @ \cup {SymbolsCache(symbol, clock)}]
                /\ loc' = [loc EXCEPT ![j].todo = Tail(@)]
                /\ UNCHANGED <<pc, store>>
    /\ UNCHANGED <<clock, provider, req, runs, marks>>

\* INSERT INTO symbols_cache (symbol, updated_at) VALUES (:symbol, utcnow()),
\* once per fetched symbol, the timestamp read before the statement is
\* sent; a symbol already there violates the primary key; the statement
\* waits while another open transaction holds the key
cache_insert(j) ==
    /\ pc[j] = "cache_insert"
    /\ loc[j].todo # <<>>
    /\ LET symbol == Head(loc[j].todo)
       IN  IF CacheKeyHeld(j, symbol)
           THEN /\ loc' = [loc EXCEPT ![j].now = clock]
                /\ pc' = [pc EXCEPT ![j] = "cache_insert_wait"]
                /\ UNCHANGED tx
           ELSE IF \E c \in VisibleCache(j) : c.symbol = symbol
           THEN Raise(j) /\ UNCHANGED loc
           ELSE /\ tx' = [tx EXCEPT ![j].ins_cache =
                             @ \cup {SymbolsCache(symbol, clock)}]
                /\ loc' = [loc EXCEPT ![j].todo = Tail(@)]
                /\ UNCHANGED pc
    /\ UNCHANGED <<clock, store, provider, req, runs, marks>>

\* the other transaction has ended: the INSERT goes on with the timestamp
\* it was sent with
cache_insert_resume(j) ==
    /\ pc[j] = "cache_insert_wait"
    /\ LET symbol == Head(loc[j].todo)
       IN  /\ ~CacheKeyHeld(j, symbol)
           /\ IF \E c \in VisibleCache(j) : c.symbol = symbol
              THEN Raise(j) /\ UNCHANGED loc
              ELSE /\ tx' = [tx EXCEPT ![j].ins_cache =
                                @ \cup {SymbolsCache(symbol, loc[j].now)}]
                   /\ loc' = [loc EXCEPT ![j].todo = Tail(@),
                                         ![j].now = None]
                   /\ pc' = [pc EXCEPT ![j] = "cache_insert"]
    /\ UNCHANGED <<clock, store, provider, req, runs, marks>>

\* the INSERT of j waits for a key that k holds
CacheInsertWaitsFor(j, k) ==
    /\ pc[j] = "cache_insert_wait"
    /\ LET symbol == Head(loc[j].todo)
       IN  \/ symbol \in tx[k].del_cache
           \/ \E c \in tx[k].ins_cache : c.symbol = symbol

\* two INSERTs wait for each other (the refreshes insert the symbols in
\* opposite orders): the server detects the deadlock and fails one of them;
\* the exception leaves get_sp500_symbols and the job, and the rollback of
\* its session lets the other INSERT go on
cache_insert_deadlock(j) ==
    /\ \E k \in Jobs \ {j} :
          CacheInsertWaitsFor(j, k) /\ CacheInsertWaitsFor(k, j)
    /\ Raise(j)
    /\ UNCHANGED <<clock, store, provider, loc, req, runs, marks>>

\* await self.db.commit(); return symbols
cache_commit(j) ==
    /\ pc[j] = "cache_insert"
    /\ loc[j].todo = <<>>
    /\ symbols_cache' = CommitCache(j)
    /\ tx' = [k \in Jobs |->
                IF k = j THEN EmptyTx
                ELSE \* the rows deleted here are gone for a DELETE that waits
                     [tx[k] EXCEPT !.del_wait =
                        {c \in @ : c.symbol \notin tx[j].del_cache}]]
    /\ loc' = [loc EXCEPT ![j].sp500_symbols = Range(loc[j].symbols)]
    /\ pc' = [pc EXCEPT ![j] = "get_earnings_calendar"]
    /\ UNCHANGED <<clock, positions, alerts, provider, req, runs, marks>>

\* (mutant) every symbol of the earnings calendar is a candidate
scan_entries_candidates_Unfiltered(j) ==
    /\ pc[j] = "get_earnings_calendar"
    /\ LET earnings_symbols == get_earnings_calendar(calendar[loc[j].as_of])
       IN  IF earnings_symbols.raised # ""
           THEN Raise(j) /\ UNCHANGED loc
           ELSE /\ loc' = [loc EXCEPT ![j].candidates = earnings_symbols.value]
                /\ pc' = [pc EXCEPT ![j] = "scan_entries"]
                /\ UNCHANGED tx
    /\ UNCHANGED <<clock, store, provider, req, runs, marks>>

\* earnings_symbols = await self.fmp.get_earnings_calendar(as_of);
\* candidates = [s for s in earnings_symbols if s in sp500_symbols]
scan_entries_candidates(j) ==
    /\ pc[j] = "get_earnings_calendar"
    /\ LET earnings_symbols == get_earnings_calendar(calendar[loc[j].as_of])
       IN  IF earnings_symbols.raised # ""
           THEN Raise(j) /\ UNCHANGED loc
           ELSE /\ loc' = [loc EXCEPT ![j].candidates =
                            Filter(earnings_symbols.value, loc[j].sp500_symbols)]
                /\ pc' = [pc EXCEPT ![j] = "scan_entries"]
                /\ UNCHANGED tx
    /\ UNCHANGED <<clock, store, provider, req, runs, marks>>

\* the statement under way raises a store error (a value the column does not
\* take, a deadlock the server resolves against this session, ...): the
\* server aborts the transaction, undoing its writes and releasing its
\* locks, and refuses every further statement until the session ends it
StatementRaises(t) ==
    [EmptyTx EXCEPT !.began = Begin(t).began, !.failed = TRUE]

\* one turn of the loop of scan_entries up to its INSERT: fetch the price
\* pair, evaluate the entry rule, build the INSERT of the position
scan_entries_fetch(j) ==
    /\ pc[j] = "scan_entries"
    /\ loc[j].candidates # <<>>
    /\ LET symbol == Head(loc[j].candidates)
           as_of == loc[j].as_of
           price_data == get_price_data_for_date(eod[symbol], as_of)
           skip == /\ loc' = [loc EXCEPT ![j].candidates = Tail(@)]
                   /\ UNCHANGED pc
           \* except Exception: logger.error(...); continue
           error == /\ loc' = [loc EXCEPT ![j].candidates = Tail(@),
                                          ![j].errors = @ \cup {EntryError(symbol)}]
                    /\ UNCHANGED pc
       IN  IF price_data.raised # "" THEN error
           ELSE IF ~price_data.found THEN skip
           ELSE IF DivisionRaises(price_data.prev_close) THEN error
           ELSE LET earnings_return ==
                        ReturnOf(price_data.as_of_close, price_data.prev_close)
                IN  IF ~EntryCondition(earnings_return) THEN skip
                    ELSE /\ loc' = [loc EXCEPT ![j].item =
                                [NoItem EXCEPT !.symbol = symbol,
                                               !.ret = earnings_return,
                                               !.price = price_data.as_of_close]]
                         /\ pc' = [pc EXCEPT ![j] = "entry_insert"]
    /\ UNCHANGED <<clock, store, provider, tx, req, runs, marks>>

\* the INSERT of the position, with the price fetched before it was sent; an
\* aborted transaction refuses it: caught by the loop's except, logged, the
\* loop goes on; it waits while another open transaction holds the key
scan_entries_position(j) ==
    /\ pc[j] = "entry_insert"
    /\ LET item == loc[j].item
           as_of == loc[j].as_of
       IN  IF tx[j].failed
           THEN /\ loc' = [loc EXCEPT
                       ![j].candidates = Tail(@),
                       ![j].errors = @ \cup {EntryError(item.symbol)},
                       ![j].item = NoItem]
                /\ pc' = [pc EXCEPT ![j] = "scan_entries"]
                /\ UNCHANGED tx
           ELSE /\ ~PositionKeyHeld(j, item.symbol, as_of)
                /\ tx' = [tx EXCEPT ![j] =
                       InsertPosition(j, item.symbol, as_of, item.price)]
                /\ pc' = [pc EXCEPT ![j] = "entry_alert"]
                /\ UNCHANGED loc
    /\ UNCHANGED <<clock, store, provider, req, runs, marks>>

\* the rest of the turn: INSERT the ENTRY alert, count it when it is new
scan_entries_alert(j) ==
    /\ pc[j] = "entry_alert"
    /\ LET item == loc[j].item
           as_of == loc[j].as_of
           event_key == _generate_entry_event_key(item.symbol, as_of)
           message == _format_entry_message(item.symbol, as_of, item.ret,
                                            item.price)
       IN  /\ ~AlertKeyHeld(j, event_key)
           /\ tx' = [tx EXCEPT ![j] =
                  InsertAlert(j, event_key, ENTRY, item.symbol, as_of, message)]
           /\ loc' = [loc EXCEPT
                  ![j].new_entries = @ + InsertAlertRowcount(j, event_key),
                  ![j].candidates = Tail(@),
                  ![j].item = NoItem]
    /\ pc' = [pc EXCEPT ![j] = "scan_entries"]
    /\ UNCHANGED <<clock, store, provider, req, runs, marks>>

\* (mutant) scan_entries returns without committing: its writes stay in the
\* session's transaction
scan_entries_commit_Deferred(j) ==
    /\ pc[j] = "scan_entries"
    /\ loc[j].candidates = <<>>
    /\ pc' = [pc EXCEPT ![j] = "scan_exits"]
    /\ UNCHANGED <<clock, store, provider, loc, tx, req, runs, marks>>

\* the loop is over: await self.db.commit(); return new_alerts
scan_entries_commit(j) ==
    /\ pc[j] = "scan_entries"
    /\ loc[j].candidates = <<>>
    /\ positions' = CommitPositions(j)
    /\ alerts' = CommitAlerts(j)
    /\ symbols_cache' = CommitCache(j)
    /\ tx' = [tx EXCEPT ![j] = EmptyTx]
    /\ pc' = [pc EXCEPT ![j] = "scan_exits"]
    /\ UNCHANGED <<clock, provider, loc, req, runs, marks>>

\* scan_exits: SELECT * FROM positions WHERE status = 'OPEN'
scan_exits_select(j) ==
    /\ pc[j] = "scan_exits"
    /\ \E open_positions \in
            scalars_all({r \in VisiblePositions(j) : r.status = OPEN}) :
          loc' = [loc EXCEPT ![j].open_positions = open_positions]
    /\ tx' = [tx EXCEPT ![j] = Begin(@)]
    /\ pc' = [pc EXCEPT ![j] = "exit_loop"]
    /\ UNCHANGED <<clock, store, provider, req, runs, marks>>

\* one turn of the loop of scan_exits up to its UPDATE: fetch the close,
\* evaluate the exit rule, build the UPDATE that closes the position
scan_exits_fetch(j) ==
    /\ pc[j] = "exit_loop"
    /\ loc[j].open_positions # <<>>
    /\ LET position == Head(loc[j].open_positions)
           as_of == loc[j].as_of
           close_price == get_close_price(eod[position.symbol], as_of)
           skip == /\ loc' = [loc EXCEPT ![j].open_positions = Tail(@)]
                   /\ UNCHANGED pc
           \* except Exception: logger.error(...); continue
           error == /\ loc' = [loc EXCEPT ![j].open_positions = Tail(@),
                                          ![j].errors = @ \cup {ExitError(position.symbol)}]
                    /\ UNCHANGED pc
       IN  IF close_price.raised # "" THEN error
           ELSE IF ~close_price.found THEN skip
           ELSE IF DivisionRaises(position.entry_price) THEN error
           ELSE LET holding_days == HoldingDays(as_of, position.entry_date)
                    pnl == ReturnOf(close_price.as_of_close, position.entry_price)
                    exit_reason == ExitReasonOf(pnl, holding_days)
                IN  IF exit_reason = NoneStr THEN skip
                    ELSE /\ loc' = [loc EXCEPT ![j].item =
                                [symbol |-> position.symbol,
                                 id |-> position.id,
                                 entry_date |-> position.entry_date,
                                 price |-> close_price.as_of_close,
                                 ret |-> pnl, reason |-> exit_reason,
                                 holding_days |-> holding_days]]
                         /\ pc' = [pc EXCEPT ![j] = "exit_update"]
    /\ UNCHANGED <<clock, store, provider, tx, req, runs, marks>>

\* the UPDATE that closes the position, with the close fetched before it was
\* sent; an aborted transaction refuses it: caught by the loop's except; it
\* waits while another open transaction holds the row
scan_exits_update(j) ==
    /\ pc[j] = "exit_update"
    /\ LET item == loc[j].item
           as_of == loc[j].as_of
       IN  IF tx[j].failed
           THEN /\ loc' = [loc EXCEPT
                       ![j].open_positions = Tail(@),
                       ![j].errors = @ \cup {ExitError(item.symbol)},
                       ![j].item = NoItem]
                /\ pc' = [pc EXCEPT ![j] = "exit_loop"]
                /\ UNCHANGED tx
           ELSE /\ ~PositionRowHeld(j, item.id)
                /\ tx' = [tx EXCEPT ![j] =
                       UpdatePosition(j, item.id, as_of, item.price,
                                      item.reason)]
                /\ pc' = [pc EXCEPT ![j] = "exit_alert"]
                /\ UNCHANGED loc
    /\ UNCHANGED <<clock, store, provider, req, runs, marks>>

\* the UPDATE of session j waits for a row that session k has updated
UpdateWaitsFor(j, k) ==
    /\ pc[j] = "exit_update"
    /\ ~tx[j].failed
    /\ \E u \in tx[k].upd_pos : u.id = loc[j].item.id

\* two sessions have updated the positions in opposite orders and each
\* waits for the row of the other: the server ends the deadlock by failing
\* the UPDATE of one of them, which aborts its transaction; caught by the
\* loop's except
scan_exits_update_deadlock(j) ==
    /\ \E k \in Jobs \ {j} : UpdateWaitsFor(j, k) /\ UpdateWaitsFor(k, j)
    /\ tx' = [tx EXCEPT ![j] = StatementRaises(@)]
    /\ loc' = [loc EXCEPT
           ![j].open_positions = Tail(@),
           ![j].errors = @ \cup {ExitError(loc[j].item.symbol)},
           ![j].item = NoItem]
    /\ pc' = [pc EXCEPT ![j] = "exit_loop"]
    /\ UNCHANGED <<clock, store, provider, req, runs, marks>>

\* (mutant) the EXIT alert is dated and keyed with the entry date
scan_exits_alert_EntryDate(j) ==
    /\ pc[j] = "exit_alert"
    /\ LET item == loc[j].item
           as_of == loc[j].item.entry_date
           event_key == _generate_exit_event_key(item.symbol, item.entry_date,
                                                 as_of, item.reason)
           message == _format_exit_message(item.symbol, as_of, item.reason,
                                           item.ret, item.price,
                                           item.holding_days)
       IN  /\ ~AlertKeyHeld(j, event_key)
           /\ tx' = [tx EXCEPT ![j] =
                  InsertAlert(j, event_key, EXIT, item.symbol, as_of, message)]
           /\ loc' = [loc EXCEPT
                  ![j].new_exits = @ + InsertAlertRowcount(j, event_key),
                  ![j].open_positions = Tail(@),
                  ![j].item = NoItem]
    /\ pc' = [pc EXCEPT ![j] = "exit_loop"]
    /\ UNCHANGED <<clock, store, provider, req, runs, marks>>

\* the rest of the turn: INSERT the EXIT alert, count it when it is new
scan_exits_alert(j) ==
    /\ pc[j] = "exit_alert"
    /\ LET item == loc[j].item
           as_of == loc[j].as_of
           event_key == _generate_exit_event_key(item.symbol, item.entry_date,
                                                 as_of, item.reason)
           message == _format_exit_message(item.symbol, as_of, item.reason,
                                           item.ret, item.price,
                                           item.holding_days)
       IN  /\ ~AlertKeyHeld(j, event_key)
           /\ tx' = [tx EXCEPT ![j] =
                  InsertAlert(j, event_key, EXIT, item.symbol, as_of, message)]
           /\ loc' = [loc EXCEPT
                  ![j].new_exits = @ + InsertAlertRowcount(j, event_key),
                  ![j].open_positions = Tail(@),
                  ![j].item = NoItem]
    /\ pc' = [pc EXCEPT ![j] = "exit_loop"]
    /\ UNCHANGED <<clock, store, provider, req, runs, marks>>

\* the loop is over: await self.db.commit(); run_daily_job returns
\* (new_entries, new_exits) and the route answers
scan_exits_commit(j) ==
    /\ pc[j] = "exit_loop"
    /\ loc[j].open_positions = <<>>
    /\ positions' = CommitPositions(j)
    /\ alerts' = CommitAlerts(j)
    /\ symbols_cache' = CommitCache(j)
    /\ tx' = [tx EXCEPT ![j] = EmptyTx]
    /\ pc' = [pc EXCEPT ![j] = "done"]
    /\ UNCHANGED <<clock, provider, loc, req, runs, marks>>

\* the INSERT of the position raises: caught by the loop's except, logged,
\* the loop goes on with the next candidate
scan_entries_position_raises(j) ==
    /\ pc[j] = "entry_insert"
    /\ ~tx[j].failed
    /\ tx' = [tx EXCEPT ![j] = StatementRaises(@)]
    /\ loc' = [loc EXCEPT
           ![j].candidates = Tail(@),
           ![j].errors = @ \cup {EntryError(loc[j].item.symbol)},
           ![j].item = NoItem]
    /\ pc' = [pc EXCEPT ![j] = "scan_entries"]
    /\ UNCHANGED <<clock, store, provider, req, runs, marks>>

\* the INSERT of the ENTRY alert raises
scan_entries_alert_raises(j) ==
    /\ pc[j] = "entry_alert"
    /\ tx' = [tx EXCEPT ![j] = StatementRaises(@)]
    /\ loc' = [loc EXCEPT
           ![j].candidates = Tail(@),
           ![j].errors = @ \cup {EntryError(loc[j].item.symbol)},
           ![j].item = NoItem]
    /\ pc' = [pc EXCEPT ![j] = "scan_entries"]
    /\ UNCHANGED <<clock, store, provider, req, runs, marks>>

\* the SELECT of the open positions raises: nothing catches it, the
\* exception leaves run_daily_job
scan_exits_select_raises(j) ==
    /\ pc[j] = "scan_exits"
    /\ Raise(j)
    /\ UNCHANGED <<clock, store, provider, loc, req, runs, marks>>

\* the UPDATE of the position raises: caught by the loop's except
scan_exits_update_raises(j) ==
    /\ pc[j] = "exit_update"
    /\ ~tx[j].failed
    /\ tx' = [tx EXCEPT ![j] = StatementRaises(@)]
    /\ loc' = [loc EXCEPT
           ![j].open_positions = Tail(@),
           ![j].errors = @ \cup {ExitError(loc[j].item.symbol)},
           ![j].item = NoItem]
    /\ pc' = [pc EXCEPT ![j] = "exit_loop"]
    /\ UNCHANGED <<clock, store, provider, req, runs, marks>>

\* the COMMIT that ends scan_exits raises (the connection is lost): the
\* exception leaves run_daily_job, nothing of the transaction is kept
scan_exits_commit_raises(j) ==
    /\ pc[j] = "exit_loop"
    /\ loc[j].open_positions = <<>>
    /\ Raise(j)
    /\ UNCHANGED <<clock, store, provider, loc, req, runs, marks>>

\* the INSERT of the EXIT alert raises
scan_exits_alert_raises(j) ==
    /\ pc[j] = "exit_alert"
    /\ tx' = [tx EXCEPT ![j] = StatementRaises(@)]
    /\ loc' = [loc EXCEPT
           ![j].open_positions = Tail(@),
           ![j].errors = @ \cup {ExitError(loc[j].item.symbol)},
           ![j].item = NoItem]
    /\ pc' = [pc EXCEPT ![j] = "exit_loop"]
    /\ UNCHANGED <<clock, store, provider, req, runs, marks>>

\* every statement of a job handler
JobStep(j) ==
    \/ get_sp500_symbols(j)
    \/ get_sp500_symbols_fetch(j)
    \/ cache_delete(j)
    \/ cache_delete_resume(j)
    \/ cache_insert(j)
    \/ cache_insert_resume(j)
    \/ cache_insert_deadlock(j)
    \/ cache_commit(j)
    \/ scan_entries_candidates(j)
    \/ scan_entries_fetch(j)
    \/ scan_entries_position(j)
    \/ scan_entries_alert(j)
    \/ scan_entries_commit(j)
    \/ scan_exits_select(j)
    \/ scan_exits_fetch(j)
    \/ scan_exits_update(j)
    \/ scan_exits_update_deadlock(j)
    \/ scan_exits_alert(j)
    \/ scan_exits_commit(j)


(***************************************************************************)
(* POST /alerts/{alert_id}/mark-sent: mark_alert_sent                      *)
(***************************************************************************)
HTTP_NOT_FOUND == 404

NoResponse == [status |-> None, id |-> None, sent_at |-> None]
InitReq == [pc |-> "idle", alert_id |-> None, response |-> NoResponse,
            prev_id |-> None, prev |-> NoResponse, now |-> None,
            limit |-> None, pending |-> <<>>, listings |-> 0]

\* (mutant) mark_alert_sent without its "already sent" branch
mark_alert_sent_NoSentCheck(r, alert_id) ==
    /\ req[r].pc \in {"idle", "done"}
    /\ marks < MaxMarks
    /\ marks' = marks + 1
    /\ LET found == {a \in alerts : a.id = alert_id}
           next == [req[r] EXCEPT !.alert_id = alert_id,
                                  !.prev_id = req[r].alert_id,
                                  !.prev = req[r].response]
       IN  req' = [req EXCEPT ![r] =
              IF found = {}
              THEN [next EXCEPT !.pc = "done",
                      !.response = [status |-> HTTP_NOT_FOUND,
                                    id |-> alert_id, sent_at |-> None]]
              ELSE \* now = datetime.utcnow()
                   [next EXCEPT !.pc = "update", !.response = NoResponse,
                                !.now = clock]]
    /\ UNCHANGED <<clock, store, provider, pc, loc, tx, runs>>

\* (mutant) mark_alert_sent without its 404: a missing alert is answered as
\* a success that carries no sent_at
mark_alert_sent_MissingIsOk(r, alert_id) ==
    /\ req[r].pc \in {"idle", "done"}
    /\ marks < MaxMarks
    /\ marks' = marks + 1
    /\ LET found == {a \in alerts : a.id = alert_id}
           alert == CHOOSE a \in found : TRUE
           next == [req[r] EXCEPT !.alert_id = alert_id,
                                  !.prev_id = req[r].alert_id,
                                  !.prev = req[r].response]
       IN  req' = [req EXCEPT ![r] =
              IF found = {}
              THEN [next EXCEPT !.pc = "done",
                      !.response = [status |-> HTTP_OK,
                                    id |-> alert_id, sent_at |-> None]]
              ELSE IF alert.sent_at # None
              THEN [next EXCEPT !.pc = "done",
                      !.response = [status |-> HTTP_OK, id |-> alert.id,
                                    sent_at |-> alert.sent_at]]
              ELSE \* now = datetime.utcnow()
                   [next EXCEPT !.pc = "update", !.response = NoResponse,
                                !.now = clock]]
    /\ UNCHANGED <<clock, store, provider, pc, loc, tx, runs>>

\* the request arrives; SELECT the alert; answer at once when it is missing
\* (404) or already sent (the stored sent_at)
mark_alert_sent(r, alert_id) ==
    /\ req[r].pc \in {"idle", "done"}
    /\ marks < MaxMarks
    /\ marks' = marks + 1
    /\ LET found == {a \in alerts : a.id = alert_id}
           alert == CHOOSE a \in found : TRUE
           next == [req[r] EXCEPT !.alert_id = alert_id,
                                  !.prev_id = req[r].alert_id,
                                  !.prev = req[r].response]
       IN  req' = [req EXCEPT ![r] =
              IF found = {}
              THEN [next EXCEPT !.pc = "done",
                      !.response = [status |-> HTTP_NOT_FOUND,
                                    id |-> alert_id, sent_at |-> None]]
              ELSE IF alert.sent_at # None
              THEN [next EXCEPT !.pc = "done",
                      !.response = [status |-> HTTP_OK, id |-> alert.id,
                                    sent_at |-> alert.sent_at]]
              ELSE \* now = datetime.utcnow()
                   [next EXCEPT !.pc = "update", !.response = NoResponse,
                                !.now = clock]]
    /\ UNCHANGED <<clock, store, provider, pc, loc, tx, runs>>

\* another request has updated the alert and not committed: it holds the
\* row lock
AlertRowHeld(r, alert_id) ==
    \E q \in Reqs \ {r} : req[q].pc = "commit" /\ req[q].alert_id = alert_id

\* UPDATE alerts SET sent_at = now WHERE id = :id, with the now read before
\* the statement was sent; the statement waits while another transaction
\* holds the row
mark_alert_sent_update(r) ==
    /\ req[r].pc = "update"
    /\ ~AlertRowHeld(r, req[r].alert_id)
    /\ req' = [req EXCEPT ![r].pc = "commit"]
    /\ UNCHANGED <<clock, store, provider, pc, loc, tx, runs, marks>>

\* await db.commit(); answer with now
mark_alert_sent_commit(r) ==
    /\ req[r].pc = "commit"
    /\ LET now == req[r].now
       IN  /\ alerts' = {IF a.id = req[r].alert_id
                         THEN [a EXCEPT !.sent_at = now] ELSE a : a \in alerts}
           /\ req' = [req EXCEPT ![r].pc = "done",
                        ![r].response = [status |-> HTTP_OK,
                                         id |-> req[r].alert_id,
                                         sent_at |-> now]]
    /\ UNCHANGED <<clock, positions, symbols_cache, provider, pc, loc, tx,
                   runs, marks>>

\* the ids a client may ask for: those of the stored alerts and one of none
RequestableIds == {a.id : a \in alerts} \cup {uuid4(AllAlertIds)}

(***************************************************************************)
(* GET /alerts/pending: get_pending_alerts                                 *)
(***************************************************************************)
\* the limits a client asks for, of those the Query validation lets through
\* (1 to 500)
Limits == 1..3

AlertResponse(a) ==
    [id |-> a.id, alert_type |-> a.alert_type, symbol |-> a.symbol,
     as_of |-> a.as_of, message |-> a.message]

\* ORDER BY created_at ASC: the rows in an order of non-decreasing created_at;
\* rows of equal created_at come in any order
OrderByCreatedAt(rows) ==
    {s \in [1..Cardinality(rows) -> rows] :
        /\ \A i, k \in DOMAIN s : i # k => s[i] # s[k]
        /\ \A i, k \in DOMAIN s : i < k => s[i].created_at <= s[k].created_at}

\* (mutant) the SELECT without its WHERE sent_at IS NULL
get_pending_alerts_Unfiltered(r, limit) ==
    /\ req[r].pc \in {"idle", "done"}
    /\ req[r].listings < MaxLists
    /\ \E ordered \in OrderByCreatedAt(alerts) :
          LET taken == Take(ordered, limit)
          IN  req' = [req EXCEPT
                  ![r].limit = limit,
                  ![r].pending = [i \in DOMAIN taken |-> AlertResponse(taken[i])],
                  ![r].listings = @ + 1]
    /\ UNCHANGED <<clock, store, provider, pc, loc, tx, runs, marks>>

\* SELECT * FROM alerts WHERE sent_at IS NULL ORDER BY created_at ASC
\* LIMIT :limit; the response is the list of AlertResponse of the rows
get_pending_alerts(r, limit) ==
    /\ req[r].pc \in {"idle", "done"}
    /\ req[r].listings < MaxLists
    /\ \E ordered \in OrderByCreatedAt({a \in alerts : a.sent_at = None}) :
          LET taken == Take(ordered, limit)
          IN  req' = [req EXCEPT
                  ![r].limit = limit,
                  ![r].pending = [i \in DOMAIN taken |-> AlertResponse(taken[i])],
                  ![r].listings = @ + 1]
    /\ UNCHANGED <<clock, store, provider, pc, loc, tx, runs, marks>>

(***************************************************************************)
(* FMPClient._request under its tenacity decorator, one attempt at a time. *)
(* http.responses is what the provider answers to the successive attempts. *)
(***************************************************************************)
NoCall ==
    [pc |-> "idle", responses |-> <<>>, attempt_number |-> 0, slept |-> 0,
     result |-> _request_once(ListResponse(<<>>))]

\* the caller awaits self._request(...)
_request_call(responses) ==
    /\ http.pc = "idle"
    /\ http' = [NoCall EXCEPT !.pc = "attempt", !.responses = responses,
                               !.attempt_number = 1]
    /\ UNCHANGED <<clock, store, sp500, calendar, eod, pc, loc, tx, req, runs,
                   marks>>

\* one attempt: the body returns, or raises; tenacity then retries, or
\* re-raises (reraise=True) when the exception is not one it retries or the
\* attempts are spent
_request_attempt ==
    /\ http.pc = "attempt"
    /\ LET result == _request_once(http.responses[http.attempt_number])
       IN  http' = [http EXCEPT
              !.result = result,
              !.pc = IF result.raised = "" THEN "returned"
                     ELSE IF /\ retry_if_exception_type(result.raised)
                             /\ ~stop_after_attempt(http.attempt_number)
                          THEN "sleep"
                          ELSE "raised"]
    /\ UNCHANGED <<clock, store, sp500, calendar, eod, pc, loc, tx, req, runs,
                   marks>>

\* the wait before the next attempt
_request_sleep ==
    /\ http.pc = "sleep"
    /\ http' = [http EXCEPT !.pc = "attempt",
                            !.attempt_number = @ + 1,
                            !.slept = @ + wait_exponential(http.attempt_number)]
    /\ UNCHANGED <<clock, store, sp500, calendar, eod, pc, loc, tx, req, runs,
                   marks>>

(***************************************************************************)
(* The environment: time passes, the provider's data changes               *)
(***************************************************************************)
Tick(limit) ==
    /\ \E h \in Durations : clock + h <= limit /\ clock' = clock + h
    /\ UNCHANGED <<store, provider, pc, loc, tx, req, runs, marks>>

\* the index membership the provider reports changes
Sp500Responses ==
    {ListResponse(<<"A">>), ListResponse(<<"A", "B">>)}

ProviderChange ==
    /\ \E resp \in Sp500Responses \ {sp500} : sp500' = resp
    /\ UNCHANGED <<clock, store, calendar, eod, http, pc, loc, tx, req, runs,
                   marks>>

(***************************************************************************)
(* Market data of the behaviours                                           *)
(***************************************************************************)
Bar(d, close) == [date |-> isoformat(d), close |-> close]

\* the dates a job is run for
JobDates == {1, 2, 51}
AllDates == 0..51

\* A and B report earnings on day 1; A drops 12% on it, falls a further
\* 10.2% by day 2 and is back at its entry price on day 51; B drops 5% and
\* stays there.
CalendarOf(day1) ==
    [d \in AllDates |-> IF d = 1 THEN ListResponse(day1) ELSE ListResponse(<<>>)]

EodBase ==
    [s \in Symbols |->
        IF s = "A"
        THEN ListResponse(<<Bar(51, 88), Bar(2, 79), Bar(1, 88), Bar(0, 100)>>)
        ELSE ListResponse(<<Bar(51, 95), Bar(2, 95), Bar(1, 95), Bar(0, 100)>>)]

(***************************************************************************)
(* Initial state: a migrated, empty database and idle handlers             *)
(***************************************************************************)
InitHist ==
    [fixed |-> FALSE, twice |-> FALSE, positions |-> {}, alerts |-> {},
     prev_universe |-> {}, as_of |-> None, kills |-> 0, partial |-> FALSE]

InitCommon ==
    /\ clock = 0
    /\ positions = {}
    /\ alerts = {}
    /\ pc = [j \in Jobs |-> "idle"]
    /\ loc = [j \in Jobs |-> InitLoc]
    /\ tx = [j \in Jobs |-> EmptyTx]
    /\ req = [r \in Reqs |-> InitReq]
    /\ runs = 0
    /\ marks = 0
    /\ http = NoCall
    /\ hist = InitHist

\* no job handler is running
JobsIdle == \A j \in Jobs : pc[j] \in {"idle", "done", "failed", "killed"}

\* no handler is running
AllIdle ==
    /\ JobsIdle
    /\ \A r \in Reqs : req[r].pc \in {"idle", "done"}

(***************************************************************************)
(* SpecSeq: one handler at a time.  hist records, for a job that starts    *)
(* right after a finished job for the same date, the store it found and    *)
(* the universe the earlier job used; hist.fixed says that since the       *)
(* earlier job started the provider has not changed and no other handler   *)
(* has run.                                                                *)
(***************************************************************************)
InitSeq ==
    /\ InitCommon
    /\ symbols_cache = {}
    /\ sp500 \in Sp500Responses
    /\ calendar = CalendarOf(<<"A", "B">>)
    /\ eod = EodBase

\* the dates the sequential invocations are for: an entry day and the day after
SeqDates == {1, 2}

SeqRun(as_of) ==
    /\ AllIdle
    /\ run_daily_job(1, as_of)
    /\ LET again == pc[1] # "idle" /\ loc[1].as_of = as_of /\ hist.fixed
       IN  hist' = [hist EXCEPT !.fixed = TRUE, !.twice = again,
                                !.positions = positions, !.alerts = alerts,
                                !.prev_universe = loc[1].sp500_symbols]

SeqMark(alert_id) ==
    /\ AllIdle
    /\ mark_alert_sent(1, alert_id)
    /\ hist' = [hist EXCEPT !.fixed = FALSE]

NextSeq ==
    \/ \E as_of \in SeqDates : SeqRun(as_of)
    \/ JobStep(1) /\ UNCHANGED hist
    \/ \E alert_id \in RequestableIds : SeqMark(alert_id)
    \/ mark_alert_sent_update(1) /\ UNCHANGED hist
    \/ mark_alert_sent_commit(1) /\ UNCHANGED hist
    \/ AllIdle /\ Tick(MaxClock) /\ UNCHANGED hist
    \/ AllIdle /\ ProviderChange /\ hist' = [hist EXCEPT !.fixed = FALSE]

SpecSeq == InitSeq /\ [][NextSeq]_vars


(***************************************************************************)
(* SpecEval: the signal rules at their thresholds.  One handler at a time, *)
(* symbol A alone, its prices drawn from values on both sides of every     *)
(* threshold: the close before the earnings day (day 0), the close of the  *)
(* earnings day (day 1, 2025-01-01) and one later close, 49 or 50 days     *)
(* after the entry.                                                        *)
(***************************************************************************)
PrevCloses == {0, 100, 125}
EntryCloses == {69, 70, 88, 95, 96, 100}
LaterCloses == {89, 90, 91, 100}
LaterDates == {50, 51}
EvalDates == {1} \cup LaterDates

EodEval(later, c2, c1, c0) ==
    [s \in Symbols |->
        IF s = "A"
        THEN ListResponse(<<Bar(later, c2), Bar(1, c1), Bar(0, c0)>>)
        ELSE ListResponse(<<>>)]

InitEval ==
    /\ InitCommon
    /\ symbols_cache = {}
    /\ sp500 = ListResponse(<<"A">>)
    /\ calendar = CalendarOf(<<"A">>)
    /\ \E later \in LaterDates, c2 \in LaterCloses, c1 \in EntryCloses,
          c0 \in PrevCloses : eod = EodEval(later, c2, c1, c0)

NextEval ==
    \/ \E as_of \in EvalDates :
          AllIdle /\ run_daily_job(1, as_of) /\ UNCHANGED hist
    \/ JobStep(1) /\ UNCHANGED hist

SpecEval == InitEval /\ [][NextEval]_vars

(***************************************************************************)
(* Spec: two job handlers that overlap, each statement of one interleaved  *)
(* with the statements of the other and with those of one mark-sent        *)
(* request for a stored alert.                                             *)
(* The symbol cache has been filled by an earlier invocation and stays     *)
(* fresh, so that the handlers meet in the tables positions and alerts.    *)
(***************************************************************************)
InitSpec ==
    /\ InitCommon
    /\ symbols_cache = {SymbolsCache("A", 0), SymbolsCache("B", 0)}
    /\ sp500 = ListResponse(<<"A", "B">>)
    /\ calendar = CalendarOf(<<"A", "B">>)
    /\ eod = EodBase

\* the statements of a job whose universe comes from the fresh cache
JobStepCached(j) ==
    \/ get_sp500_symbols(j)
    \/ scan_entries_candidates(j)
    \/ scan_entries_fetch(j)
    \/ scan_entries_position(j)
    \/ scan_entries_alert(j)
    \/ scan_entries_commit(j)
    \/ scan_exits_select(j)
    \/ scan_exits_fetch(j)
    \/ scan_exits_update(j)
    \/ scan_exits_update_deadlock(j)
    \/ scan_exits_alert(j)
    \/ scan_exits_commit(j)

Next ==
    \/ \E j \in Jobs, as_of \in JobDates :
          run_daily_job(j, as_of) /\ UNCHANGED hist
    \/ \E j \in Jobs : JobStepCached(j) /\ UNCHANGED hist
    \/ \E a \in alerts :
          marks = 0 /\ mark_alert_sent(1, a.id) /\ UNCHANGED hist
    \/ mark_alert_sent_update(1) /\ UNCHANGED hist
    \/ mark_alert_sent_commit(1) /\ UNCHANGED hist

Spec == InitSpec /\ [][Next]_vars

(***************************************************************************)
(* SpecMarks: mark-sent handlers that overlap each other while time        *)
(* passes, on the alerts that job handlers have written in between.        *)
(***************************************************************************)
InitMarks ==
    /\ InitCommon
    /\ symbols_cache = {}
    /\ sp500 = ListResponse(<<"A", "B">>)
    /\ calendar = CalendarOf(<<"A", "B">>)
    /\ eod = EodBase

NextMarks ==
    \/ \E as_of \in SeqDates :
          AllIdle /\ run_daily_job(1, as_of) /\ UNCHANGED hist
    \/ JobStep(1) /\ UNCHANGED hist
    \/ \E r \in Reqs, alert_id \in RequestableIds :
          JobsIdle /\ mark_alert_sent(r, alert_id) /\ UNCHANGED hist
    \/ \E r \in Reqs : mark_alert_sent_update(r) /\ UNCHANGED hist
    \/ \E r \in Reqs : mark_alert_sent_commit(r) /\ UNCHANGED hist
    \/ Tick(MaxClock) /\ UNCHANGED hist

SpecMarks == InitMarks /\ [][NextMarks]_vars

(***************************************************************************)
(* SpecRequest: the provider client.  One _request call whose attempts the *)
(* provider answers in every way, next to job handlers, one at a time, for *)
(* which the provider rate-limits the price request of B, the first of the *)
(* two candidates.  Weak fairness: a handler that can take a step takes    *)
(* one.                                                                    *)
(***************************************************************************)
AttemptOutcomes ==
    {ListResponse(<<"A">>), TimeoutResponse, ErrorResponse(HTTP_RATE_LIMIT),
     ErrorResponse(HTTP_FORBIDDEN), ErrorResponse(HTTP_SERVER_ERROR)}

AttemptSequences ==
    {<<a, b, c>> : a \in AttemptOutcomes, b \in AttemptOutcomes,
                   c \in AttemptOutcomes}

EodRateLimited ==
    [s \in Symbols |->
        IF s = "B" THEN ErrorResponse(HTTP_RATE_LIMIT) ELSE EodBase[s]]

InitRequest ==
    /\ InitCommon
    /\ symbols_cache = {}
    /\ sp500 = ListResponse(<<"A", "B">>)
    /\ calendar = CalendarOf(<<"B", "A">>)
    /\ eod = EodRateLimited

NextRequest ==
    \/ \E responses \in AttemptSequences :
          _request_call(responses) /\ UNCHANGED hist
    \/ _request_attempt /\ UNCHANGED hist
    \/ _request_sleep /\ UNCHANGED hist
    \/ \E as_of \in SeqDates :
          AllIdle /\ run_daily_job(1, as_of) /\ UNCHANGED hist
    \/ JobStep(1) /\ UNCHANGED hist

SpecRequest == InitRequest /\ [][NextRequest]_vars /\ WF_vars(NextRequest)

(***************************************************************************)
(* SpecCache: the symbol cache.  Two job handlers that overlap, on days    *)
(* without earnings, while time passes and the constituent list that the   *)
(* provider answers changes: one symbol, another symbol, an empty list, a  *)
(* server error.                                                           *)
(***************************************************************************)
CacheLists == {<<"A">>, <<"B">>}

CacheResponses ==
    {ListResponse(symbols) : symbols \in CacheLists}
        \cup {ListResponse(<<>>), ErrorResponse(HTTP_SERVER_ERROR)}

ProviderAnswers ==
    /\ \E resp \in CacheResponses \ {sp500} : sp500' = resp
    /\ UNCHANGED <<clock, store, calendar, eod, http, pc, loc, tx, req, runs,
                   marks>>

InitCache ==
    /\ InitCommon
    /\ symbols_cache = {}
    /\ sp500 \in CacheResponses
    /\ calendar = CalendarOf(<<>>)
    /\ eod = EodBase

\* the statements of a job on a day without earnings and without positions
JobStepCache(j) ==
    \/ get_sp500_symbols(j)
    \/ get_sp500_symbols_fetch(j)
    \/ cache_delete(j)
    \/ cache_delete_resume(j)
    \/ cache_insert(j)
    \/ cache_insert_resume(j)
    \/ cache_insert_deadlock(j)
    \/ cache_commit(j)
    \/ scan_entries_candidates(j)
    \/ scan_entries_commit(j)
    \/ scan_exits_select(j)
    \/ scan_exits_commit(j)

NextCache ==
    \/ \E j \in Jobs : run_daily_job(j, 1) /\ UNCHANGED hist
    \/ \E j \in Jobs : JobStepCache(j) /\ UNCHANGED hist
    \/ Tick(MaxClock) /\ UNCHANGED hist
    \/ ProviderAnswers /\ UNCHANGED hist

SpecCache == InitCache /\ [][NextCache]_vars

(***************************************************************************)
(* SpecRefresh: the symbol cache under one job handler at a time.  The     *)
(* provider first answers the list A, B and then changes as in SpecCache,  *)
(* or lists a symbol twice; time passes at any moment, also between two    *)
(* statements of a refresh.                                                *)
(***************************************************************************)
InitRefresh ==
    /\ InitCommon
    /\ symbols_cache = {}
    /\ sp500 = ListResponse(<<"A", "B">>)
    /\ calendar = CalendarOf(<<>>)
    /\ eod = EodBase

\* the provider lists B twice
RepeatedList == ListResponse(<<"B", "B", "A">>)

ProviderRepeats ==
    /\ sp500 # RepeatedList
    /\ sp500' = RepeatedList
    /\ UNCHANGED <<clock, store, calendar, eod, http, pc, loc, tx, req, runs,
                   marks>>

NextRefresh ==
    \/ run_daily_job(1, 1) /\ UNCHANGED hist
    \/ JobStepCache(1) /\ UNCHANGED hist
    \/ Tick(MaxClock) /\ UNCHANGED hist
    \/ ProviderAnswers /\ UNCHANGED hist
    \/ ProviderRepeats /\ UNCHANGED hist

SpecRefresh == InitRefresh /\ [][NextRefresh]_vars

(***************************************************************************)
(* SpecFail: failures inside a batch.  One job handler at a time, for the  *)
(* earnings day, the day after and the fiftieth day after; the provider    *)
(* serves every price request or rate-limits those of B; any statement of  *)
(* the two loops, the SELECT of the open positions and the last COMMIT may *)
(* raise a store error.                                                    *)
(***************************************************************************)
InitFail ==
    /\ InitCommon
    /\ symbols_cache = {}
    /\ sp500 = ListResponse(<<"A", "B">>)
    /\ calendar = CalendarOf(<<"B", "A">>)
    /\ eod \in {EodBase, EodRateLimited}

NextFail ==
    \/ \E as_of \in JobDates :
          AllIdle /\ run_daily_job(1, as_of) /\ UNCHANGED hist
    \/ JobStep(1) /\ UNCHANGED hist
    \/ scan_entries_position_raises(1) /\ UNCHANGED hist
    \/ scan_entries_alert_raises(1) /\ UNCHANGED hist
    \/ scan_exits_select_raises(1) /\ UNCHANGED hist
    \/ scan_exits_update_raises(1) /\ UNCHANGED hist
    \/ scan_exits_alert_raises(1) /\ UNCHANGED hist
    \/ scan_exits_commit_raises(1) /\ UNCHANGED hist

SpecFail == InitFail /\ [][NextFail]_vars

(***************************************************************************)
(* SpecCrash: kill and replay.  One job handler at a time; the process may *)
(* be killed at any statement of a job, and the next job is then for the   *)
(* same date.  A reports earnings on day 1 and on day 2, B on day 1, so    *)
(* the job for day 2 opens a position and closes another.  The provider    *)
(* does not change; the cache is empty at first, or holds an earlier list  *)
(* of constituents.  hist records the store that the first job for the     *)
(* date found and the universe that it works on, how often jobs for the    *)
(* date were killed, and whether a kill left a store that differs from the *)
(* one found.                                                              *)
(***************************************************************************)
\* what get_sp500_symbols does for a job that reads the cache and asks the
\* provider now: the exception it raises ("" when none) and the symbols it
\* returns
UniverseNow ==
    LET fresh == /\ symbols_cache # {}
                 /\ clock - Min({c.updated_at : c \in symbols_cache})
                       < sp500_cache_ttl_hours
        cached_symbols == {c.symbol : c \in symbols_cache}
        symbols == get_sp500_constituents(sp500)
    IN  IF fresh THEN [raised |-> "", value |-> cached_symbols]
        ELSE IF symbols.raised # ""
        THEN [raised |-> symbols.raised, value |-> {}]
        ELSE IF symbols.value = <<>>
        THEN [raised |-> "", value |-> cached_symbols]
        ELSE IF \E i, k \in DOMAIN symbols.value :
                   i # k /\ symbols.value[i] = symbols.value[k]
        THEN \* the second INSERT of a symbol violates the primary key
             [raised |-> "IntegrityError", value |-> {}]
        ELSE [raised |-> "", value |-> Range(symbols.value)]

CalendarCrash ==
    [d \in AllDates |->
        IF d = 1 THEN ListResponse(<<"B", "A">>)
        ELSE IF d = 2 THEN ListResponse(<<"A">>)
        ELSE ListResponse(<<>>)]

InitCrash ==
    /\ InitCommon
    /\ symbols_cache \in {{}, {SymbolsCache("A", 0)}}
    /\ sp500 = ListResponse(<<"A", "B">>)
    /\ calendar = CalendarCrash
    /\ eod \in {EodBase, EodRateLimited}

CrashRun(as_of) ==
    /\ AllIdle
    /\ pc[1] = "killed" => as_of = loc[1].as_of
    /\ run_daily_job(1, as_of)
    /\ hist' = IF pc[1] = "killed" THEN hist
               ELSE [hist EXCEPT !.positions = positions, !.alerts = alerts,
                                 !.prev_universe = UniverseNow.value,
                                 !.as_of = as_of, !.kills = 0,
                                 !.partial = FALSE]

CrashKill ==
    /\ Kill(1)
    /\ hist' = [hist EXCEPT
           !.kills = @ + 1,
           !.partial = @ \/ positions # hist.positions
                         \/ alerts # hist.alerts]

NextCrash ==
    \/ \E as_of \in JobDates : CrashRun(as_of)
    \/ JobStep(1) /\ UNCHANGED hist
    \/ CrashKill
    \/ AllIdle /\ Tick(MaxClock) /\ UNCHANGED hist

SpecCrash == InitCrash /\ [][NextCrash]_vars

(***************************************************************************)
(* SpecPair: two overlapping jobs for one date.  Job 1 starts when no      *)
(* handler runs; job 2 may start, for the same date, while job 1 runs, and *)
(* the two then take their statements in any order while time passes.  The *)
(* provider's data does not change, but the constituent request may answer *)
(* the same symbols in another order; the cache is empty at first, or      *)
(* holds an earlier list of constituents.  hist records the store that job *)
(* 1 found and whether job 2 has joined it.                                *)
(***************************************************************************)
InitPair ==
    /\ InitCommon
    /\ symbols_cache \in {{}, {SymbolsCache("A", 0)}}
    /\ sp500 \in {ListResponse(<<"A", "B">>), ListResponse(<<"B">>)}
    /\ calendar = CalendarCrash
    /\ eod = EodBase

\* once job 1 has its list, the provider answers the constituent request
\* with the same symbols in the other order; the cache is empty, so that no
\* DELETE keeps the two refreshes apart
ProviderReorders ==
    /\ pc[1] = "cache_delete"
    /\ symbols_cache = {}
    /\ sp500 = ListResponse(<<"A", "B">>)
    /\ sp500' = ListResponse(<<"B", "A">>)
    /\ UNCHANGED <<clock, store, calendar, eod, http, pc, loc, tx, req, runs,
                   marks>>

PairFirst(as_of) ==
    /\ AllIdle
    /\ run_daily_job(1, as_of)
    /\ hist' = [hist EXCEPT !.positions = positions, !.alerts = alerts,
                            !.as_of = as_of, !.twice = FALSE]

PairSecond ==
    /\ pc[1] \notin {"idle", "done", "failed", "killed"}
    /\ ~hist.twice
    /\ run_daily_job(2, hist.as_of)
    /\ hist' = [hist EXCEPT !.twice = TRUE]

NextPair ==
    \/ \E as_of \in SeqDates : PairFirst(as_of)
    \/ PairSecond
    \/ \E j \in Jobs : JobStep(j) /\ UNCHANGED hist
    \/ Tick(MaxClock) /\ UNCHANGED hist
    \/ ProviderReorders /\ UNCHANGED hist

SpecPair == InitPair /\ [][NextPair]_vars

(***************************************************************************)
(* SpecPending: the pending-alert listing.  Jobs for the earnings day and  *)
(* the day after, one handler at a time, while time passes; then a client  *)
(* that marks alerts as sent, and then lists the pending ones with limits  *)
(* below and above their number.                                           *)
(***************************************************************************)
InitPending ==
    /\ InitCommon
    /\ symbols_cache = {}
    /\ sp500 = ListResponse(<<"A", "B">>)
    /\ calendar = CalendarCrash
    /\ eod = EodBase

NextPending ==
    \/ \E as_of \in SeqDates :
          /\ AllIdle /\ marks = 0 /\ req[1].listings = 0
          /\ run_daily_job(1, as_of) /\ UNCHANGED hist
    \/ JobStep(1) /\ UNCHANGED hist
    \/ \E alert_id \in RequestableIds :
          /\ JobsIdle /\ req[1].listings = 0
          /\ mark_alert_sent(1, alert_id) /\ UNCHANGED hist
    \/ mark_alert_sent_update(1) /\ UNCHANGED hist
    \/ mark_alert_sent_commit(1) /\ UNCHANGED hist
    \/ \E limit \in Limits :
          JobsIdle /\ get_pending_alerts(1, limit) /\ UNCHANGED hist
    \/ /\ AllIdle /\ marks = 0 /\ req[1].listings = 0
       /\ Tick(MaxClock) /\ UNCHANGED hist

SpecPending == InitPending /\ [][NextPending]_vars

(***************************************************************************)
(* SpecKeys: event keys.  Jobs, one at a time, for the earnings day, the   *)
(* day after and the fiftieth day after, on symbols of which one holds the *)
(* separator of the keys and a date.                                       *)
(***************************************************************************)
KeySymbols == {"A", "A|2025-01-01", "B"}

InitKeys ==
    /\ InitCommon
    /\ symbols_cache = {}
    /\ sp500 = ListResponse(<<"A", "A|2025-01-01", "B">>)
    /\ calendar = CalendarOf(<<"A", "A|2025-01-01", "B">>)
    /\ eod = [symbol \in KeySymbols |->
                IF symbol = "B" THEN EodBase["B"] ELSE EodBase["A"]]

NextKeys ==
    \/ \E as_of \in JobDates :
          AllIdle /\ run_daily_job(1, as_of) /\ UNCHANGED hist
    \/ JobStep(1) /\ UNCHANGED hist

SpecKeys == InitKeys /\ [][NextKeys]_vars

(***************************************************************************)
(* SpecScan: the two scans on varied provider data.  Jobs, one at a time,  *)
(* for the earnings day, the day after and the fiftieth day after.  The    *)
(* constituent list holds A and B, B alone or nothing; the earnings        *)
(* calendar of day 1 lists A twice and then B, or A alone, or the calendar *)
(* answers with a server error, or A reports on the fiftieth day after;    *)
(* the price window of A is drawn from ScanWindows, and between two jobs   *)
(* the provider may restate a close.                                       *)
(***************************************************************************)
\* 21 records, 2025-01-20 down to 2024-12-31: the window of 20 ends with
\* 2025-01-01
RECURSIVE BarsDownFrom(_)
BarsDownFrom(d) ==
    IF d = 0 THEN <<Bar(0, 100)>> ELSE <<Bar(d, 88)>> \o BarsDownFrom(d - 1)

ScanWindows ==
    { EodBase["A"],
      ObjectResponse(EodBase["A"].items),
      ListResponse(<<>>),
      \* 2025-01-01 is the oldest record
      ListResponse(<<Bar(2, 79), Bar(1, 88)>>),
      \* 2025-01-01 is not in the window
      ListResponse(<<Bar(2, 79), Bar(0, 100)>>),
      \* a close is missing
      ListResponse(<<Bar(2, 79), Bar(1, None), Bar(0, 100)>>),
      ListResponse(<<Bar(2, 79), Bar(1, 88), Bar(0, None)>>),
      \* more records than the window takes
      ListResponse(BarsDownFrom(timeseries)),
      \* after the entry: 2025-01-02 without close, 2025-01-02 not there,
      \* 2025-01-02 with a loss short of the stop
      ListResponse(<<Bar(51, 88), Bar(2, None), Bar(1, 88), Bar(0, 100)>>),
      ListResponse(<<Bar(51, 88), Bar(1, 88), Bar(0, 100)>>),
      ListResponse(<<Bar(51, 80), Bar(2, 80), Bar(1, 88), Bar(0, 100)>>),
      \* a drop of 10% on 2025-02-20, to a close far above that of 2025-01-01
      ListResponse(<<Bar(51, 90), Bar(2, 100), Bar(1, 50), Bar(0, 100)>>) }

InitScan ==
    /\ InitCommon
    /\ symbols_cache = {}
    /\ sp500 \in {ListResponse(<<"A", "B">>), ListResponse(<<"B">>),
                  ListResponse(<<>>)}
    /\ calendar \in {CalendarOf(<<"A", "A", "B">>), CalendarOf(<<"A">>),
                     [d \in AllDates |-> ErrorResponse(HTTP_SERVER_ERROR)],
                     \* A reports on 2025-02-20
                     [d \in AllDates |->
                        ListResponse(IF d = 51 THEN <<"A">> ELSE <<>>)]}
    /\ \E window \in ScanWindows :
          eod = [symbol \in Symbols |->
                    IF symbol = "A" THEN window ELSE EodBase["B"]]

\* the provider restates the close of A of 2025-01-01 from 88.00 to 90.00
PricesRevised ==
    /\ eod["A"] = EodBase["A"]
    /\ eod' = [eod EXCEPT !["A"] =
                ListResponse(<<Bar(51, 88), Bar(2, 79), Bar(1, 90), Bar(0, 100)>>)]
    /\ UNCHANGED <<clock, store, sp500, calendar, http, pc, loc, tx, req, runs,
                   marks>>

NextScan ==
    \/ \E as_of \in JobDates :
          AllIdle /\ run_daily_job(1, as_of) /\ UNCHANGED hist
    \/ JobStep(1) /\ UNCHANGED hist
    \/ AllIdle /\ PricesRevised /\ UNCHANGED hist

SpecScan == InitScan /\ [][NextScan]_vars

(***************************************************************************)
(* SpecAbort: the fetches of scan_entries fail.  One job handler at a      *)
(* time; between two jobs time passes, and the provider starts or stops    *)
(* answering the constituent request, or the earnings-calendar request,    *)
(* with a server error, a rate limit or a timeout.  hist records the       *)
(* positions and alerts that a job found.                                  *)
(***************************************************************************)
AbortFailures ==
    {ErrorResponse(HTTP_SERVER_ERROR), ErrorResponse(HTTP_RATE_LIMIT),
     TimeoutResponse}

InitAbort ==
    /\ InitCommon
    /\ symbols_cache = {}
    /\ sp500 = ListResponse(<<"A", "B">>)
    /\ calendar = CalendarOf(<<"A", "B">>)
    /\ eod = EodBase

AbortRun(as_of) ==
    /\ AllIdle
    /\ run_daily_job(1, as_of)
    /\ hist' = [hist EXCEPT !.positions = positions, !.alerts = alerts]

\* the sp500-constituent request starts or stops failing
UniverseFetchChanges ==
    /\ \E resp \in (AbortFailures \cup {ListResponse(<<"A", "B">>)}) \ {sp500} :
          sp500' = resp
    /\ UNCHANGED <<clock, store, calendar, eod, http, pc, loc, tx, req, runs,
                   marks>>

\* the earnings-calendar request starts or stops failing
CalendarFetchChanges ==
    /\ \E resp \in AbortFailures \cup {ListResponse(<<>>)} :
          LET next == IF resp \in AbortFailures
                      THEN [d \in AllDates |-> resp]
                      ELSE CalendarOf(<<"A", "B">>)
          IN  next # calendar /\ calendar' = next
    /\ UNCHANGED <<clock, store, sp500, eod, http, pc, loc, tx, req, runs,
                   marks>>

NextAbort ==
    \/ \E as_of \in JobDates : AbortRun(as_of)
    \/ JobStep(1) /\ UNCHANGED hist
    \/ AllIdle /\ Tick(MaxClock) /\ UNCHANGED hist
    \/ AllIdle /\ UniverseFetchChanges /\ UNCHANGED hist
    \/ AllIdle /\ CalendarFetchChanges /\ UNCHANGED hist

SpecAbort == InitAbort /\ [][NextAbort]_vars

(***************************************************************************)
(* Claims                                                                  *)
(***************************************************************************)
\* the job of slot 1 has finished right after an earlier job for the same
\* date, with the provider unchanged and no other handler run since that
\* earlier job started
SecondRunOver ==
    /\ pc[1] \in {"done", "failed"}
    /\ hist.twice
    /\ hist.fixed

SecondRunChangedNothing ==
    /\ positions = hist.positions
    /\ alerts = hist.alerts
    /\ pc[1] = "done" => loc[1].new_entries = 0 /\ loc[1].new_exits = 0

\* C1 as stated: a second run_daily_job(d) in succession, with the
\* provider's data held fixed, leaves the Position and Alert rows as the
\* first left them and returns the counts (0, 0).
C1_Original == SecondRunOver => SecondRunChangedNothing

\* C1 as amended: the same, provided the second invocation works on the
\* same symbol universe as the first (get_sp500_symbols returns the same set
\* in both: the cache did not expire in between onto a different
\* constituent list).
C1_IdempotentSameUniverse ==
    (SecondRunOver /\ (pc[1] = "failed"
                        \/ loc[1].sp500_symbols = hist.prev_universe))
        => SecondRunChangedNothing

\* a second run over the same universe that met the rows of the first: an
\* open and a closed position and their alerts
C1_Witness ==
    /\ SecondRunOver
    /\ pc[1] = "done"
    /\ loc[1].sp500_symbols = hist.prev_universe
    /\ \E p \in positions : p.status = CLOSED
    /\ \E p \in positions : p.status = OPEN
    /\ \E a \in alerts : a.alert_type = EXIT

\* C9: mark_alert_sent called twice in succession for an existing alert
\* succeeds both times with the same sent_at, and the second call leaves the
\* stored sent_at as the first set it.
C9_MarkSentIdempotent ==
    (/\ req[1].pc = "done"
     /\ req[1].prev_id = req[1].alert_id
     /\ req[1].prev.status = HTTP_OK)
        => /\ req[1].response.status = HTTP_OK
           /\ req[1].response.id = req[1].alert_id
           /\ req[1].response.sent_at = req[1].prev.sent_at
           /\ \E a \in alerts : /\ a.id = req[1].alert_id
                                /\ a.sent_at = req[1].prev.sent_at

\* the second call came at a later hour than the first
C9_Witness ==
    /\ req[1].pc = "done"
    /\ req[1].prev_id = req[1].alert_id
    /\ req[1].prev.status = HTTP_OK
    /\ req[1].response.status = HTTP_OK
    /\ clock > req[1].prev.sent_at


\* the provider's close of symbol on day d, read off its bars
ClosesOn(symbol, d) ==
    {b.close : b \in {x \in Range(eod[symbol].items) : x.date = isoformat(d)}}

PositionsOf(symbol, entry_date) ==
    {p \in positions : p.symbol = symbol /\ p.entry_date = entry_date}
EntryAlertsOf(symbol, entry_date) ==
    {a \in alerts : /\ a.alert_type = ENTRY
                    /\ a.symbol = symbol
                    /\ a.as_of = entry_date}
ExitAlertsOf(symbol, as_of) ==
    {a \in alerts : /\ a.alert_type = EXIT
                    /\ a.symbol = symbol
                    /\ a.as_of = as_of}

\* the entry phase of the job of slot 1 is over
EntriesScanned(as_of) ==
    /\ pc[1] \in {"scan_exits", "exit_loop", "exit_update", "exit_alert", "done"}
    /\ loc[1].as_of = as_of
    /\ loc[1].sp500_symbols # {}

\* C6: for candidate A with the price pair (c1, c0), c0 > 0, scan_entries
\* records the entry (a position at entry price c1 and its ENTRY alert) if
\* and only if -0.30 <= c1/c0 - 1 <= -0.05; with c0 = 100 that is
\* 70 <= c1 <= 95: 70 and 95 fire, 69 and 96 do not.
C6_EntryIffInRange ==
    \A c1 \in ClosesOn("A", 1), c0 \in ClosesOn("A", 0) :
        (EntriesScanned(1) /\ c0 > 0) =>
            LET recorded ==
                    /\ \E p \in PositionsOf("A", 1) : p.entry_price = c1
                    /\ EntryAlertsOf("A", 1) # {}
                nothing ==
                    /\ PositionsOf("A", 1) = {}
                    /\ EntryAlertsOf("A", 1) = {}
                in_range ==
                    /\ -30 * c0 <= 100 * (c1 - c0)
                    /\ 100 * (c1 - c0) <= -5 * c0
            IN  /\ in_range => recorded
                /\ ~in_range => nothing
                /\ c0 = 100 => (recorded <=> c1 \in 70..95)

\* the entry phase has run on a return of exactly -30% and recorded the entry
C6_Witness ==
    /\ EntriesScanned(1)
    /\ ClosesOn("A", 1) = {70}
    /\ ClosesOn("A", 0) = {100}
    /\ PositionsOf("A", 1) # {}
    /\ EntryAlertsOf("A", 1) # {}

\* the job of slot 1 has returned, and the position of A entered on day 1
\* was OPEN when its exit phase started
ExitsScanned(as_of) ==
    /\ pc[1] = "done"
    /\ loc[1].as_of = as_of

\* the position was closed by a scan for as_of, for the given reason
ClosedOn(p, as_of, reason) ==
    /\ p.status = CLOSED
    /\ p.exit_date = as_of
    /\ p.exit_reason = reason

\* C7: a scan of the exits for as_of closes the position of A with reason
\* STOP_LOSS if and only if close/entry_price - 1 <= -0.10 (-10% fires, -9%
\* does not), also when the position has been held 50 days; one EXIT alert
\* at most is recorded for the position and the date.
C7_StopLossIffPnl ==
    \A as_of \in EvalDates : \A close \in ClosesOn("A", as_of) :
        \A p \in PositionsOf("A", 1) :
            ExitsScanned(as_of) =>
                LET stop == 100 * (close - p.entry_price) <= -10 * p.entry_price
                IN  /\ ClosedOn(p, as_of, STOP_LOSS) <=> stop
                    /\ stop => ~ClosedOn(p, as_of, TIME_EXIT)
                    /\ Cardinality(ExitAlertsOf("A", as_of)) <= 1
                    /\ (p.entry_price = 100 /\ close = 90)
                          => ClosedOn(p, as_of, STOP_LOSS)
                    /\ (p.entry_price = 100 /\ close = 91)
                          => ~ClosedOn(p, as_of, STOP_LOSS)

\* both exit conditions held (pnl = -11% after 50 days) and the scan closed
\* the position
C7_Witness ==
    /\ ExitsScanned(51)
    /\ ClosesOn("A", 51) = {89}
    /\ \E p \in PositionsOf("A", 1) :
          p.entry_price = 100 /\ p.status = CLOSED

\* C8: a scan of the exits for as_of closes the position of A with reason
\* TIME_EXIT if and only if as_of - entry_date >= 50 calendar days and
\* close/entry_price - 1 > -0.10 (49 days do not fire, 50 do); entered on
\* 2025-01-01 and evaluated on 2025-02-20 at pnl = 0 it has been held 50
\* days and is closed with TIME_EXIT.
C8_TimeExitIffHeld50 ==
    \A as_of \in EvalDates : \A close \in ClosesOn("A", as_of) :
        \A p \in PositionsOf("A", 1) :
            ExitsScanned(as_of) =>
                LET stop == 100 * (close - p.entry_price) <= -10 * p.entry_price
                    held == as_of - p.entry_date
                IN  /\ ClosedOn(p, as_of, TIME_EXIT) <=> (held >= 50 /\ ~stop)
                    /\ (/\ isoformat(p.entry_date) = "2025-01-01"
                        /\ isoformat(as_of) = "2025-02-20"
                        /\ close = p.entry_price)
                          => /\ held = 50
                             /\ ClosedOn(p, as_of, TIME_EXIT)
                             /\ \E a \in ExitAlertsOf("A", as_of) :
                                   a.event_key =
                                     "EXIT|A|2025-01-01|2025-02-20|TIME_EXIT"

\* the position entered at 100 on 2025-01-01 was evaluated at 100 on
\* 2025-02-20 and closed
C8_Witness ==
    /\ ExitsScanned(51)
    /\ ClosesOn("A", 51) = {100}
    /\ \E p \in PositionsOf("A", 1) :
          p.entry_price = 100 /\ p.status = CLOSED /\ p.exit_price = 100


(***************************************************************************)
(* Claims on overlapping invocations (Spec, SpecMarks)                     *)
(***************************************************************************)
\* C2: whatever run_daily_job invocations have run, one after the other or
\* overlapping, also next to a mark-sent request, no two Alert rows carry
\* the same event_key, every Alert row that is there stays with its id and
\* its key, and no step of a job changes it: an insert on a key that exists
\* is a no-op.
C2_AlertKeysUnique ==
    [][/\ \A a \in alerts : \E b \in alerts' :
              /\ b.id = a.id
              /\ b.event_key = a.event_key
              /\ req' = req => b = a
       /\ \A a, b \in alerts' : a.event_key = b.event_key => a = b]_vars

\* two jobs for the same date are over; the alert insert of one was new and
\* that of the other met the key
C2_Witness ==
    /\ pc[1] = "done" /\ pc[2] = "done"
    /\ loc[1].as_of = loc[2].as_of
    /\ loc[1].new_entries > 0
    /\ loc[2].new_entries = 0
    /\ \E a \in alerts : a.alert_type = ENTRY /\ a.as_of = loc[2].as_of

\* C3: whatever run_daily_job invocations have run, one after the other or
\* overlapping, there is at most one Position row per (symbol, entry_date).
C3_OnePositionPerKey ==
    \A p, q \in positions :
        (p.symbol = q.symbol /\ p.entry_date = q.entry_date) => p = q

\* job 1 has inserted a position and not committed; job 2, for the same
\* date, is at the insert of the same (symbol, entry_date)
C3_Witness ==
    /\ pc[1] = "entry_alert"
    /\ pc[2] = "scan_entries"
    /\ loc[2].as_of = loc[1].as_of
    /\ loc[2].candidates # <<>>
    /\ Head(loc[2].candidates) = loc[1].item.symbol
    /\ PositionKeyHeld(2, loc[1].item.symbol, loc[1].as_of)

\* C4 as stated: CLOSED is terminal.  In every step, a Position that is
\* CLOSED stays as it is: its status, exit_date, exit_price and exit_reason
\* are not written again.
C4_ClosedIsTerminal ==
    [][\A p \in positions :
          p.status = CLOSED =>
             \E q \in positions' :
                /\ q.id = p.id
                /\ q.status = p.status
                /\ q.exit_date = p.exit_date
                /\ q.exit_price = p.exit_price
                /\ q.exit_reason = p.exit_reason]_vars

\* C5: every committed Position is self-consistent: OPEN with no exit field
\* set, or CLOSED with exit_date, exit_price and exit_reason all set and
\* exit_reason one of STOP_LOSS, TIME_EXIT.
C5_PositionSelfConsistent ==
    \A p \in positions :
        \/ /\ p.status = OPEN
           /\ p.exit_date = None
           /\ p.exit_price = None
           /\ p.exit_reason = NoneStr
        \/ /\ p.status = CLOSED
           /\ p.exit_date # None
           /\ p.exit_price # None
           /\ p.exit_reason \in {STOP_LOSS, TIME_EXIT}

\* a position closed for each of the two reasons, by jobs that are over
C5_Witness ==
    /\ \E p \in positions : p.status = CLOSED /\ p.exit_reason = STOP_LOSS
    /\ \E p \in positions : p.status = CLOSED /\ p.exit_reason = TIME_EXIT
    /\ \A j \in Jobs : pc[j] \in {"idle", "done"}

\* C10 as stated: sent_at is unset on a new Alert row and written at most
\* once: in every step a set sent_at stays what it is, and every successful
\* mark_alert_sent response carries the sent_at that is stored.
C10_SentAtWrittenOnce ==
    [][/\ \A b \in alerts' :
             (\A a \in alerts : a.id # b.id) => b.sent_at = None
       /\ \A a \in alerts :
             a.sent_at # None =>
                \E b \in alerts' : b.id = a.id /\ b.sent_at = a.sent_at
       /\ \A r \in Reqs :
             (req'[r].pc = "done" /\ req'[r].response.status = HTTP_OK) =>
                \E b \in alerts' : /\ b.id = req'[r].alert_id
                                   /\ b.sent_at = req'[r].response.sent_at]_vars

\* C20: mark_alert_sent for an id that no Alert row carries answers 404 at
\* once and changes nothing in the store: the step that takes the call
\* leaves positions, alerts and the symbol cache as they are.
C20_UnknownIdNotFound ==
    [][\A r \in Reqs :
          (/\ marks' = marks + 1
           /\ req'[r] # req[r]
           /\ \A a \in alerts : a.id # req'[r].alert_id)
             => /\ req'[r].pc = "done"
                /\ req'[r].response.status = HTTP_NOT_FOUND
                /\ req'[r].response.sent_at = None
                /\ UNCHANGED store]_vars

\* a call for an unknown id was answered 404 while alerts are stored, one of
\* them marked sent
C20_Witness ==
    /\ \E r \in Reqs :
          /\ req[r].pc = "done"
          /\ req[r].response.status = HTTP_NOT_FOUND
          /\ \A a \in alerts : a.id # req[r].alert_id
    /\ \E a \in alerts : a.sent_at # None
    /\ \E a \in alerts : a.sent_at = None


(***************************************************************************)
(* Claims on the provider client (SpecRequest)                             *)
(***************************************************************************)
\* the attempts of the call made so far, each with what the provider answered
AttemptsMade ==
    IF http.pc = "idle" THEN {}
    ELSE IF http.pc = "attempt" THEN 1..(http.attempt_number - 1)
    ELSE 1..http.attempt_number

IsClientError(resp) ==
    /\ resp.kind # "timeout"
    /\ resp.status >= 400 /\ resp.status < 500
    /\ resp.status # HTTP_RATE_LIMIT

IsTransient(resp) ==
    \/ resp.kind = "timeout"
    \/ resp.kind # "timeout" /\ resp.status >= 500

IsRateLimit(resp) == resp.kind # "timeout" /\ resp.status = HTTP_RATE_LIMIT

IsSuccess(resp) == resp.kind # "timeout" /\ resp.status = HTTP_OK

\* C17 as stated: a request that receives a client error other than the
\* rate-limit status is attempted exactly once: that attempt is the last,
\* and the call raises.
C17_ClientErrorNotRetried ==
    \A n \in AttemptsMade :
        IsClientError(http.responses[n])
            => /\ http.attempt_number = n
               /\ http.pc = "raised"
               /\ http.result.raised = "HTTPStatusError"

\* C18: one call makes at most 3 attempts; an attempt that times out or is
\* answered with a server error is followed by another one while fewer than
\* 3 have been made; the call returns the body of the first successful
\* attempt as soon as there is one; a failed third attempt raises its
\* failure; and every call comes to an end.
C18_RetryBound ==
    /\ [](/\ http.attempt_number <= 3
          /\ \A n \in AttemptsMade :
                /\ (IsTransient(http.responses[n]) /\ n < 3)
                      => http.attempt_number > n \/ http.pc = "sleep"
                /\ IsSuccess(http.responses[n])
                      => /\ http.attempt_number = n
                         /\ http.pc = "returned"
                         /\ http.result.raised = ""
                         /\ http.result.items = http.responses[n].items
                /\ (~IsSuccess(http.responses[n]) /\ n = 3)
                      => /\ http.pc = "raised"
                         /\ http.result.raised # ""
          /\ http.pc = "returned"
                => IsSuccess(http.responses[http.attempt_number]))
    /\ (http.pc = "attempt" ~> http.pc \in {"returned", "raised"})

\* a call that returned on its third attempt after a timeout and a server
\* error, having slept twice
C18_Witness ==
    /\ http.pc = "returned"
    /\ http.attempt_number = 3
    /\ http.responses[1] = TimeoutResponse
    /\ http.responses[2] = ErrorResponse(HTTP_SERVER_ERROR)
    /\ http.slept = 4

\* C19: a rate-limit response raises FMPRateLimitError, a kind of its own,
\* on the attempt that received it, and that attempt is the last; and a job
\* whose price request for one candidate is rate-limited goes on to the
\* next candidate: when the scan is over the entry of A is recorded, none
\* of B.
C19_RateLimitDistinctNotRetried ==
    /\ \A n \in AttemptsMade :
          IsRateLimit(http.responses[n])
             => /\ http.attempt_number = n
                /\ http.pc = "raised"
                /\ http.result.raised = "FMPRateLimitError"
    /\ http.pc = "raised" /\ ~IsRateLimit(http.responses[http.attempt_number])
          => http.result.raised # "FMPRateLimitError"
    /\ (pc[1] = "done" /\ loc[1].as_of = 1)
          => /\ \E p \in positions : p.symbol = "A" /\ p.entry_date = 1
             /\ \E a \in alerts :
                   a.event_key = _generate_entry_event_key("A", 1)
             /\ \A p \in positions : p.symbol # "B"

\* the call was rate-limited on its second attempt, after a timeout; the
\* job is over, its request for B rate-limited, A entered
C19_Witness ==
    /\ http.pc = "raised"
    /\ http.attempt_number = 2
    /\ http.responses[1] = TimeoutResponse
    /\ IsRateLimit(http.responses[2])
    /\ pc[1] = "done" /\ loc[1].as_of = 1
    /\ get_price_data_for_date(eod["B"], 1).raised = "FMPRateLimitError"
    /\ \E p \in positions : p.symbol = "A" /\ p.entry_date = 1


(***************************************************************************)
(* Claims on the symbol cache (SpecCache)                                  *)
(***************************************************************************)
\* the cache that get_sp500_symbols reads is not empty and its oldest row is
\* at least the ttl old
CacheIsStale ==
    /\ symbols_cache # {}
    /\ clock - Min({c.updated_at : c \in symbols_cache}) >= sp500_cache_ttl_hours

\* the fetch of the constituents raises or yields nothing
FetchFails ==
    LET symbols == get_sp500_constituents(sp500)
    IN  symbols.raised # "" \/ symbols.value = <<>>

\* C14 as stated: when get_sp500_symbols has found a stale, non-empty cache
\* and the fetch of the constituents fails, it returns the cached symbols,
\* the scan goes on, and the cache stays as it is.
C14_StaleCacheFallback ==
    [][\A j \in Jobs :
          (/\ pc[j] = "get_sp500_constituents"
           /\ pc'[j] # pc[j]
           /\ loc[j].cached # {}
           /\ FetchFails)
             => /\ pc'[j] # "failed"
                /\ loc'[j].sp500_symbols = {c.symbol : c \in loc[j].cached}
                /\ symbols_cache' = symbols_cache]_vars

\* C15 as stated: the committed cache is empty or holds exactly the symbols
\* of one fetched constituent list.
C15_CacheFromOneRefresh ==
    \/ symbols_cache = {}
    \/ \E symbols \in CacheLists :
          {c.symbol : c \in symbols_cache} = Range(symbols)

(***************************************************************************)
(* Failures inside a batch (SpecFail)                                      *)
(***************************************************************************)
\* symbol, of the universe, reports earnings on as_of and its prices meet
\* the entry rule
MeetsEntryRule(symbol, as_of, universe) ==
    LET earnings_symbols == get_earnings_calendar(calendar[as_of])
        price_data == get_price_data_for_date(eod[symbol], as_of)
    IN  /\ symbol \in universe
        /\ earnings_symbols.raised = ""
        /\ symbol \in Range(earnings_symbols.value)
        /\ price_data.raised = ""
        /\ price_data.found
        /\ ~DivisionRaises(price_data.prev_close)
        /\ EntryCondition(ReturnOf(price_data.as_of_close,
                                   price_data.prev_close))

\* symbol is a candidate of the entry scan of job j and meets the entry rule
QualifiesForEntry(j, symbol) ==
    MeetsEntryRule(symbol, loc[j].as_of, loc[j].sp500_symbols)

EntryStored(symbol, as_of) ==
    /\ \E r \in positions : r.symbol = symbol /\ r.entry_date = as_of
    /\ \E a \in alerts :
          a.event_key = _generate_entry_event_key(symbol, as_of)

\* C13: per-item failure isolation.  When the entry scan of a job is over,
\* every candidate that meets the entry rule and whose own processing raised
\* no error has its position and its ENTRY alert committed, whatever
\* happened to the other candidates.
C13_OtherItemsCommitted ==
    (pc[1] = "scan_exits") =>
        \A symbol \in Symbols :
            (/\ QualifiesForEntry(1, symbol)
             /\ EntryError(symbol) \notin loc[1].errors)
                => EntryStored(symbol, loc[1].as_of)

\* C16: phase independence.  (1) When scan_entries has returned, the session
\* holds no uncommitted write: what the entry scan stored is committed
\* before the exit scan starts.  (2) The commit that ends the entry scan
\* stores every position and every alert the transaction holds, unless the
\* server had aborted the transaction.  (3) A step by which the exit scan
\* fails and the session is rolled back changes no position and no alert.
ExitFails ==
    /\ pc[1] \in {"scan_exits", "exit_loop", "exit_update", "exit_alert"}
    /\ pc'[1] = "failed"

EntriesCommit ==
    /\ pc[1] = "scan_entries"
    /\ pc'[1] = "scan_exits"

C16_ExitFailureKeepsEntries ==
    /\ [](pc[1] = "scan_exits" => tx[1] = EmptyTx)
    /\ [][(EntriesCommit /\ ~tx[1].failed) =>
             /\ tx[1].ins_pos \subseteq positions'
             /\ tx[1].ins_alerts \subseteq alerts']_vars
    /\ [][ExitFails => (positions' = positions /\ alerts' = alerts)]_vars

\* the exit scan of the job for the earnings day has failed after its entry
\* scan opened both positions, and both are in the store with their alerts
C16_Witness ==
    /\ runs = 1
    /\ pc[1] = "failed"
    /\ loc[1].new_entries = 2
    /\ \A symbol \in Symbols : EntryStored(symbol, loc[1].as_of)

(***************************************************************************)
(* The result of one job, as a function of the store it finds              *)
(***************************************************************************)
\* a row without what differs from one insertion to the next: the generated
\* id and the timestamps
BusinessPosition(p) ==
    [symbol |-> p.symbol, entry_date |-> p.entry_date,
     entry_price |-> p.entry_price, status |-> p.status,
     exit_date |-> p.exit_date, exit_price |-> p.exit_price,
     exit_reason |-> p.exit_reason]

BusinessAlert(a) ==
    [event_key |-> a.event_key, alert_type |-> a.alert_type,
     symbol |-> a.symbol, as_of |-> a.as_of, message |-> a.message,
     sent_at |-> a.sent_at]

\* the positions after the entry scan for as_of of a job that found P0 and
\* works on the universe
ExpectedEntered(P0, as_of, universe) ==
    {BusinessPosition(p) : p \in P0} \cup
    {[symbol |-> symbol, entry_date |-> as_of,
      entry_price |-> get_price_data_for_date(eod[symbol], as_of).as_of_close,
      status |-> OPEN, exit_date |-> None, exit_price |-> None,
      exit_reason |-> NoneStr] :
        symbol \in {x \in Symbols :
            /\ MeetsEntryRule(x, as_of, universe)
            /\ ~\E p \in P0 : p.symbol = x /\ p.entry_date = as_of}}

\* the reason for which the exit scan for as_of closes p, NoneStr if none
ExpectedExit(p, as_of) ==
    LET close_price == get_close_price(eod[p.symbol], as_of)
    IN  IF \/ p.status # OPEN
           \/ close_price.raised # ""
           \/ ~close_price.found
           \/ DivisionRaises(p.entry_price)
        THEN NoneStr
        ELSE ExitReasonOf(ReturnOf(close_price.as_of_close, p.entry_price),
                          HoldingDays(as_of, p.entry_date))

\* the positions after one complete job for as_of that found P0
ExpectedPositions(P0, as_of, universe) ==
    {IF ExpectedExit(p, as_of) = NoneStr THEN p
     ELSE [p EXCEPT !.status = CLOSED, !.exit_date = as_of,
                    !.exit_price =
                        get_close_price(eod[p.symbol], as_of).as_of_close,
                    !.exit_reason = ExpectedExit(p, as_of)] :
        p \in ExpectedEntered(P0, as_of, universe)}

ExpectedEntryAlert(symbol, as_of) ==
    LET price_data == get_price_data_for_date(eod[symbol], as_of)
    IN  [event_key |-> _generate_entry_event_key(symbol, as_of),
         alert_type |-> ENTRY, symbol |-> symbol, as_of |-> as_of,
         message |-> _format_entry_message(symbol, as_of,
                        ReturnOf(price_data.as_of_close, price_data.prev_close),
                        price_data.as_of_close),
         sent_at |-> None]

ExpectedExitAlert(p, as_of) ==
    LET close_price == get_close_price(eod[p.symbol], as_of).as_of_close
        reason == ExpectedExit(p, as_of)
    IN  [event_key |-> _generate_exit_event_key(p.symbol, p.entry_date,
                                                as_of, reason),
         alert_type |-> EXIT, symbol |-> p.symbol, as_of |-> as_of,
         message |-> _format_exit_message(p.symbol, as_of, reason,
                        ReturnOf(close_price, p.entry_price), close_price,
                        HoldingDays(as_of, p.entry_date)),
         sent_at |-> None]

\* the alerts after one complete job for as_of that found P0 and A0: a key
\* that A0 holds keeps its row
ExpectedAlerts(P0, A0, as_of, universe) ==
    LET new == {ExpectedEntryAlert(symbol, as_of) :
                    symbol \in {x \in Symbols :
                        MeetsEntryRule(x, as_of, universe)}}
               \cup
               {ExpectedExitAlert(p, as_of) :
                    p \in {q \in ExpectedEntered(P0, as_of, universe) :
                        ExpectedExit(q, as_of) # NoneStr}}
    IN  {BusinessAlert(a) : a \in A0} \cup
        {n \in new : ~\E a \in A0 : a.event_key = n.event_key}

\* the store holds what one complete job for as_of leaves when it finds P0
\* and A0 and works on the universe, each row once
StoreIsResultOf(P0, A0, as_of, universe) ==
    LET P1 == ExpectedPositions(P0, as_of, universe)
        A1 == ExpectedAlerts(P0, A0, as_of, universe)
    IN  /\ {BusinessPosition(p) : p \in positions} = P1
        /\ Cardinality(positions) = Cardinality(P1)
        /\ {BusinessAlert(a) : a \in alerts} = A1
        /\ Cardinality(alerts) = Cardinality(A1)

\* position uniqueness, alert key uniqueness, position field consistency
StoreInvariants ==
    /\ \A p, q \in positions :
          (p.symbol = q.symbol /\ p.entry_date = q.entry_date) => p = q
    /\ \A a, b \in alerts : a.event_key = b.event_key => a = b
    /\ \A p \in positions :
          \/ /\ p.status = OPEN
             /\ p.exit_date = None
             /\ p.exit_price = None
             /\ p.exit_reason = NoneStr
          \/ /\ p.status = CLOSED
             /\ p.exit_date # None
             /\ p.exit_price # None
             /\ p.exit_reason \in {STOP_LOSS, TIME_EXIT}

(***************************************************************************)
(* Kill and replay (SpecCrash)                                             *)
(***************************************************************************)
\* C11 as stated: the store a killed job leaves satisfies the store
\* invariants, and the job for the same date that completes after it leaves
\* the positions and alerts that one uninterrupted job, started when the
\* first job for the date was, leaves.
C11_Original ==
    /\ pc[1] = "killed" => StoreInvariants
    /\ pc[1] = "done" =>
          StoreIsResultOf(hist.positions, hist.alerts, hist.as_of,
                          hist.prev_universe)

\* C11: crash recovery by replay.  The store a killed job leaves satisfies
\* the store invariants, and the job for the same date that completes,
\* after no kill or after any number of killed jobs for that date, leaves
\* the positions and alerts that one uninterrupted job leaves from the
\* store the first of them found, provided it works on the universe the
\* first of them worked on.
C11_ReplayReachesSingleRunResult ==
    /\ pc[1] = "killed" => StoreInvariants
    /\ (pc[1] = "done" /\ loc[1].sp500_symbols = hist.prev_universe) =>
          StoreIsResultOf(hist.positions, hist.alerts, hist.as_of,
                          hist.prev_universe)

\* the job for day 2 was killed after its entry scan had committed the new
\* position of A; the replay has completed and closed A's position of day 1
C11_Witness ==
    /\ pc[1] = "done"
    /\ loc[1].sp500_symbols = hist.prev_universe
    /\ hist.as_of = 2
    /\ hist.kills > 0
    /\ hist.partial
    /\ \E p \in positions :
          p.entry_date = 1 /\ p.status = CLOSED /\ p.exit_date = 2
    /\ \E p \in positions : p.entry_date = 2 /\ p.status = OPEN

(***************************************************************************)
(* Two overlapping jobs for one date (SpecPair)                            *)
(***************************************************************************)
\* the universes that the jobs of the pair that completed worked on
PairUniverses == {loc[j].sp500_symbols : j \in {k \in Jobs : pc[k] = "done"}}

\* C12 as stated: when two jobs for the same date overlap and both have
\* finished, the store holds the positions and alerts that a single job
\* would have left from the store the first of them found (a job working
\* on the universe of either of the two), each row once.
C12_Original ==
    (hist.twice /\ AllIdle /\ PairUniverses # {}) =>
        /\ StoreInvariants
        /\ \E universe \in PairUniverses :
              StoreIsResultOf(hist.positions, hist.alerts, hist.as_of,
                              universe)

\* C12: when two jobs for the same date overlap and both have finished, the
\* store satisfies the store invariants (no second Position for a (symbol,
\* entry_date), no second Alert for an event_key), and, provided the jobs
\* that completed worked on one and the same universe, it holds the
\* positions and alerts that one job leaves from the store the first of
\* them found, each row once.
C12_OverlapReachesSingleRunResult ==
    (hist.twice /\ AllIdle) =>
        /\ StoreInvariants
        /\ \A universe \in PairUniverses :
              PairUniverses = {universe} =>
                  StoreIsResultOf(hist.positions, hist.alerts, hist.as_of,
                                  universe)

\* the two jobs for day 2 have overlapped and are over: the position of A
\* for day 2 is open, that of day 1 is closed, and the alert inserts of one
\* of the jobs met the keys of the other
C12_Witness ==
    /\ hist.twice
    /\ pc[1] = "done" /\ pc[2] = "done"
    /\ loc[1].sp500_symbols = loc[2].sp500_symbols
    /\ hist.as_of = 2
    /\ loc[1].new_entries + loc[2].new_entries = 1
    /\ loc[1].new_exits + loc[2].new_exits = 1
    /\ \E p \in positions :
          p.entry_date = 1 /\ p.status = CLOSED /\ p.exit_date = 2
    /\ \E p \in positions : p.entry_date = 2 /\ p.status = OPEN

(***************************************************************************)
(* The pending-alert listing (SpecPending)                                 *)
(***************************************************************************)
PendingAlerts == {a \in alerts : a.sent_at = None}

\* the stored alert that an item of a listing stands for
AlertOf(item) == CHOOSE a \in alerts : a.id = item.id

\* C21: a listing with limit n returns min(n, number of pending alerts)
\* items, each the response of a different stored alert whose sent_at is
\* unset, in ascending created_at order, and no pending alert left out is
\* older than one returned.
C21_ListingIsOldestPending ==
    [][req'[1].listings # req[1].listings =>
        LET listing == req'[1].pending
            limit == req'[1].limit
            pending == Cardinality(PendingAlerts)
        IN  /\ Len(listing) = IF pending < limit THEN pending ELSE limit
            /\ \A i \in DOMAIN listing :
                  /\ \E a \in PendingAlerts : listing[i] = AlertResponse(a)
                  /\ \A k \in DOMAIN listing :
                        /\ i # k => listing[i].id # listing[k].id
                        /\ i < k => AlertOf(listing[i]).created_at
                                        <= AlertOf(listing[k]).created_at
                  /\ \A a \in PendingAlerts :
                        (\A k \in DOMAIN listing : listing[k].id # a.id)
                            => AlertOf(listing[i]).created_at <= a.created_at]_vars

\* a listing with limit 2 returned two alerts created at different times;
\* three alerts are pending and one has been marked sent
C21_Witness ==
    /\ req[1].listings > 0
    /\ req[1].limit = 2
    /\ Len(req[1].pending) = 2
    /\ Cardinality(PendingAlerts) = 3
    /\ \E a \in alerts : a.sent_at # None
    /\ \A i \in DOMAIN req[1].pending :
          \E a \in PendingAlerts : a.id = req[1].pending[i].id
    /\ AlertOf(req[1].pending[1]).created_at
          < AlertOf(req[1].pending[2]).created_at

(***************************************************************************)
(* Event keys (SpecKeys)                                                   *)
(***************************************************************************)
ExitReasons == {STOP_LOSS, TIME_EXIT}

EntryInputs == KeySymbols \X JobDates
ExitInputs == KeySymbols \X JobDates \X JobDates \X ExitReasons

EntryKeyOf(t) == _generate_entry_event_key(t[1], t[2])
ExitKeyOf(t) == _generate_exit_event_key(t[1], t[2], t[3], t[4])

\* C22: the entry key is "ENTRY|" symbol "|" date and the exit key is
\* "EXIT|" symbol "|" entry date "|" exit date "|" reason; two input tuples
\* that differ give different keys, no entry key is an exit key, and every
\* stored alert carries the key of its own symbol, dates and reason.
C22_EventKeysInjective ==
    /\ EntryKeyOf(<<"A", 1>>) = "ENTRY|A|2025-01-01"
    /\ ExitKeyOf(<<"A", 1, 51, TIME_EXIT>>)
          = "EXIT|A|2025-01-01|2025-02-20|TIME_EXIT"
    /\ \A t, u \in EntryInputs : EntryKeyOf(t) = EntryKeyOf(u) => t = u
    /\ \A t, u \in ExitInputs : ExitKeyOf(t) = ExitKeyOf(u) => t = u
    /\ \A t \in EntryInputs : \A u \in ExitInputs : EntryKeyOf(t) # ExitKeyOf(u)
    /\ \A a \in alerts :
          IF a.alert_type = ENTRY
          THEN a.event_key = EntryKeyOf(<<a.symbol, a.as_of>>)
          ELSE \E p \in positions :
                  /\ p.symbol = a.symbol
                  /\ p.exit_date = a.as_of
                  /\ a.event_key = ExitKeyOf(<<p.symbol, p.entry_date,
                                               p.exit_date, p.exit_reason>>)

\* the jobs have stored entry keys and exit keys of both reasons, some of
\* them for the symbol that holds a separator and a date
C22_Witness ==
    /\ \E a \in alerts : a.alert_type = ENTRY /\ a.symbol = "A|2025-01-01"
    /\ \E a \in alerts :
          /\ a.alert_type = EXIT
          /\ a.event_key = "EXIT|A|2025-01-01|2025-01-01|2025-01-02|STOP_LOSS"
    /\ \E a \in alerts :
          a.event_key = "EXIT|B|2025-01-01|2025-02-20|TIME_EXIT"

(***************************************************************************)
(* The entry scan (SpecSeq)                                                *)
(***************************************************************************)
PositionsFor(rows, symbol, entry_date) ==
    {r \in rows : r.symbol = symbol /\ r.entry_date = entry_date}

EntryAlertsFor(rows, symbol, as_of) ==
    {a \in rows : a.event_key = _generate_entry_event_key(symbol, as_of)}

\* C23: at the commit of the entry scan for D, a symbol X of the universe
\* that reports earnings on D with a return inside the entry range, and for
\* which the store held no position and no ENTRY alert for (X, D), has
\* exactly one position (X, D), OPEN, priced at the close of D, exit fields
\* unset, and exactly one alert ENTRY|X|D of type ENTRY, as_of D, unsent;
\* for closes 100.00 then 88.00 the price is 88.00 and the message reports
\* -12.00%.
C23_EntryCreatesPositionAndAlert ==
    [][(pc[1] = "scan_entries" /\ pc'[1] = "scan_exits") =>
        \A X \in Symbols :
            LET D == loc[1].as_of
                price_data == get_price_data_for_date(eod[X], D)
            IN  (/\ QualifiesForEntry(1, X)
                 /\ PositionsFor(positions, X, D) = {}
                 /\ EntryAlertsFor(alerts, X, D) = {})
                =>
                /\ Cardinality(PositionsFor(positions', X, D)) = 1
                /\ \A p \in PositionsFor(positions', X, D) :
                      /\ p.entry_price = price_data.as_of_close
                      /\ p.status = OPEN
                      /\ p.exit_date = None
                      /\ p.exit_price = None
                      /\ p.exit_reason = NoneStr
                /\ Cardinality(EntryAlertsFor(alerts', X, D)) = 1
                /\ \A a \in EntryAlertsFor(alerts', X, D) :
                      /\ a.alert_type = ENTRY
                      /\ a.symbol = X
                      /\ a.as_of = D
                      /\ a.sent_at = None
                      /\ (price_data.prev_close = 100 /\ price_data.as_of_close = 88)
                            => /\ \A p \in PositionsFor(positions', X, D) :
                                     p.entry_price = 88
                               /\ a.message =
                                     "[ENTRY] " \o X \o " " \o isoformat(D)
                                        \o "\nEarnings day return: -12.00%"
                                        \o "\nEntry price (close): 88.00"]_vars

\* the entry scan for 2025-01-01 has committed, on a store that was empty,
\* the position and the alert of A, which closed at 88.00 after 100.00
C23_Witness ==
    /\ pc[1] = "scan_exits"
    /\ loc[1].as_of = 1
    /\ hist.positions = {} /\ hist.alerts = {}
    /\ \E p \in positions :
          p.symbol = "A" /\ p.entry_date = 1 /\ p.entry_price = 88 /\ p.status = OPEN
    /\ \E a \in alerts :
          /\ a.event_key = "ENTRY|A|2025-01-01"
          /\ a.message = "[ENTRY] A 2025-01-01\nEarnings day return: -12.00%\nEntry price (close): 88.00"

(***************************************************************************)
(* Historical prices (SpecScan)                                            *)
(***************************************************************************)
\* C24: get_historical_prices returns the records of the response, newest
\* first, cut to the first timeseries records, whether the body is a list
\* or an object with the records under "historical".
C24_HistoricalRecordsReturned ==
    \A symbol \in Symbols :
        (eod[symbol].status = HTTP_OK)
            => get_historical_prices(eod[symbol], timeseries).value
                  = Take(eod[symbol].items, timeseries)

(***************************************************************************)
(* The symbol cache under one handler (SpecRefresh)                        *)
(***************************************************************************)
\* the committed cache has an entry and none is as old as the ttl
CacheFresh ==
    /\ symbols_cache # {}
    /\ \A c \in symbols_cache : clock - c.updated_at < sp500_cache_ttl_hours

CachedSymbols == {c.symbol : c \in symbols_cache}

NoCacheWrite(t) == t.del_cache = {} /\ t.ins_cache = {}

\* C25: at the step of get_sp500_symbols that reads the cache: when the
\* cache is non-empty and its oldest entry is younger than the ttl, the job
\* works on exactly the cached symbols, whatever the provider would answer
\* (an answer that would fail the job does not), and the cache and the
\* session hold no cache write; when one entry is as old as the ttl, the
\* job goes on to the provider, whose answer decides: the fetched list is
\* taken for a refresh, or the fetch fails the job, or an empty answer
\* falls back on the rows read.
C25_FreshCacheIsReturned ==
    [][/\ (pc[1] = "get_sp500_symbols" /\ pc'[1] # "get_sp500_symbols") =>
            IF CacheFresh
            THEN /\ loc'[1].sp500_symbols = CachedSymbols
                 /\ pc'[1] = "get_earnings_calendar"
                 /\ symbols_cache' = symbols_cache
                 /\ NoCacheWrite(tx'[1])
            ELSE /\ pc'[1] = "get_sp500_constituents"
                 /\ loc'[1].cached = symbols_cache
                 /\ symbols_cache' = symbols_cache
                 /\ NoCacheWrite(tx'[1])
       /\ (pc[1] = "get_sp500_constituents" /\ pc'[1] # pc[1]
              /\ loc[1].cached # {}) =>
            LET fetched == get_sp500_constituents(sp500)
            IN  /\ fetched.raised # "" => pc'[1] = "failed"
                /\ (fetched.raised = "" /\ fetched.value # <<>>)
                       => /\ pc'[1] = "cache_delete"
                          /\ loc'[1].symbols = fetched.value
                /\ (fetched.raised = "" /\ fetched.value = <<>>)
                       => /\ pc'[1] = "get_earnings_calendar"
                          /\ loc'[1].sp500_symbols =
                                {c.symbol : c \in loc[1].cached}]_vars

\* a job works on a cache of two entries of different age, the older one
\* younger than the ttl, while the provider answers with a server error
C25_Witness ==
    /\ pc[1] = "get_earnings_calendar"
    /\ loc[1].symbols = <<>>
    /\ CacheFresh
    /\ \E c, d \in symbols_cache : c.updated_at < d.updated_at
    /\ loc[1].sp500_symbols = CachedSymbols
    /\ sp500 = ErrorResponse(HTTP_SERVER_ERROR)

\* the step that commits a refresh of job 1
RefreshCommits == pc[1] = "cache_insert" /\ pc'[1] = "get_earnings_calendar"

\* the refresh replaces the cache by the fetched list, which the job takes
\* as its universe
CacheReplacedByFetch ==
    /\ loc[1].symbols # <<>>
    /\ loc'[1].sp500_symbols = Range(loc[1].symbols)
    /\ {c.symbol : c \in symbols_cache'} = Range(loc[1].symbols)
    /\ Cardinality(symbols_cache') = Cardinality(Range(loc[1].symbols))

\* C26 as stated: a refresh returns the fetched list L, and when it commits
\* the cache holds exactly the symbols of L, every entry with the one time
\* of the refresh as updated_at.
C26_Original ==
    [][RefreshCommits =>
        /\ CacheReplacedByFetch
        /\ \A c, d \in symbols_cache' : c.updated_at = d.updated_at]_vars

\* C26: a job that finds the cache empty or stale and fetches a non-empty
\* list L starts a refresh with L; when the refresh commits, the job's
\* universe is L and the cache holds exactly the symbols of L, each entry
\* with the time of its own insert, between the start of the refresh and
\* its commit.
C26_RefreshReplacesCache ==
    [][/\ (pc[1] = "get_sp500_constituents" /\ pc'[1] = "cache_delete")
            => /\ ~CacheFresh
               /\ loc'[1].symbols = get_sp500_constituents(sp500).value
               /\ loc'[1].symbols # <<>>
       /\ RefreshCommits =>
            /\ CacheReplacedByFetch
            /\ \A c \in symbols_cache' :
                  tx[1].began <= c.updated_at /\ c.updated_at <= clock]_vars

\* a refresh with the list B has committed over a stale cache that held A
\* and B: the cache holds B alone, with the time of the refresh
C26_Witness ==
    /\ pc[1] = "get_earnings_calendar"
    /\ loc[1].symbols = <<"B">>
    /\ loc[1].sp500_symbols = {"B"}
    /\ symbols_cache = {SymbolsCache("B", clock)}
    /\ clock >= sp500_cache_ttl_hours
    /\ runs > 1

(***************************************************************************)
(* The scans on varied provider data (SpecScan)                            *)
(***************************************************************************)
\* the step that commits the entry scan of job 1
EntryScanCommits == pc[1] = "scan_entries" /\ pc'[1] = "scan_exits"

\* the symbols the provider lists with earnings on as_of
EarningsOn(as_of) == Range(get_earnings_calendar(calendar[as_of]).value)

\* C27: the positions and the alerts that an entry scan for as_of commits
\* are for as_of and for symbols that are in the universe of the scan and
\* in the earnings calendar of as_of, and after the commit no symbol has
\* two positions for as_of or two alerts with its entry key, also when the
\* calendar lists it twice.
C27_EntriesWithinUniverseAndEarnings ==
    [][EntryScanCommits =>
        LET as_of == loc[1].as_of
            universe == loc[1].sp500_symbols
        IN  /\ UniverseNow.raised = ""
            /\ universe = UniverseNow.value
            /\ \A p \in positions' \ positions :
                  /\ p.entry_date = as_of
                  /\ p.symbol \in universe \cap EarningsOn(as_of)
            /\ \A a \in alerts' \ alerts :
                  /\ a.alert_type = ENTRY
                  /\ a.as_of = as_of
                  /\ a.symbol \in universe \cap EarningsOn(as_of)
            /\ \A symbol \in Symbols :
                  /\ Cardinality(PositionsFor(positions', symbol, as_of)) <= 1
                  /\ Cardinality(EntryAlertsFor(alerts', symbol, as_of)) <= 1]_vars

\* the entry scan of 2025-01-01 has committed with a calendar that lists A
\* twice: A and B, both in the universe, have one position and one alert
C27_Witness ==
    /\ pc[1] = "scan_exits"
    /\ loc[1].as_of = 1
    /\ get_earnings_calendar(calendar[1]).value = <<"A", "A", "B">>
    /\ loc[1].sp500_symbols = {"A", "B"}
    /\ loc[1].new_entries = 2
    /\ Cardinality(PositionsFor(positions, "A", 1)) = 1
    /\ Cardinality(EntryAlertsFor(alerts, "A", 1)) = 1
    /\ Cardinality(positions) = 2
    /\ Cardinality(alerts) = 2

\* the step of job 1 at which get_sp500_symbols returns no symbol
UniverseEmpty ==
    /\ pc[1] = "get_sp500_constituents"
    /\ pc'[1] \notin {"get_sp500_constituents", "failed", "cache_delete"}
    /\ loc'[1].sp500_symbols = {}

WritesNothing(t) ==
    /\ t.ins_pos = {} /\ t.upd_pos = {} /\ t.ins_alerts = {}
    /\ t.del_cache = {} /\ t.ins_cache = {}

\* C28: when the cache is empty and the fetch yields no symbol, scan_entries
\* returns 0 at once: the job is at the start of scan_exits for the same
\* date, whatever the earnings calendar would answer, and neither the store
\* nor the session holds a write; the job then runs scan_exits to its end.
C28_EmptyUniverseSkipsEntries ==
    [][/\ UniverseEmpty =>
            /\ loc[1].cached = {}
            /\ symbols_cache = {}
            /\ get_sp500_constituents(sp500).value = <<>>
            /\ pc'[1] = "scan_exits"
            /\ loc'[1].as_of = loc[1].as_of
            /\ loc'[1].new_entries = 0
            /\ loc'[1].candidates = <<>>
            /\ store' = store
            /\ WritesNothing(tx'[1])
       /\ (pc[1] \in {"scan_exits", "exit_loop"} /\ loc[1].sp500_symbols = {}
             /\ pc'[1] # pc[1])
            => /\ pc'[1] \in {"exit_loop", "done"}
               /\ loc'[1].as_of = loc[1].as_of]_vars

\* a job has ended with an empty universe while the earnings calendar
\* answers with a server error: scan_exits has run, nothing is stored
C28_Witness ==
    /\ pc[1] = "done"
    /\ loc[1].as_of = 1
    /\ loc[1].sp500_symbols = {}
    /\ get_earnings_calendar(calendar[1]).raised # ""
    /\ loc[1].new_entries = 0
    /\ loc[1].new_exits = 0
    /\ positions = {} /\ alerts = {}

\* the window of symbol: the records get_historical_prices returns
WindowOf(symbol) == get_historical_prices(eod[symbol], timeseries).value

\* the window holds a record dated d, a record right after it, and the
\* closes c of the first and prev of the second
PricePairIs(window, d, c, prev) ==
    \E i \in DOMAIN window :
        /\ window[i].date = isoformat(d)
        /\ \A k \in 1..(i - 1) : window[k].date # isoformat(d)
        /\ i < Len(window)
        /\ window[i].close = c /\ c # None
        /\ window[i + 1].close = prev /\ prev # None

PriceAbsent(window, d) ==
    \/ \A i \in DOMAIN window : window[i].date # isoformat(d)
    \/ window[Len(window)].date = isoformat(d)
    \/ \E i \in 1..(Len(window) - 1) :
          /\ window[i].date = isoformat(d)
          /\ window[i].close = None \/ window[i + 1].close = None

\* the turn of the loop of scan_entries of job 1 for a candidate whose
\* price pair is absent
AbsentCandidateTurn ==
    /\ pc[1] = "scan_entries"
    /\ loc[1].candidates # <<>>
    /\ loc'[1] # loc[1]
    /\ PriceAbsent(WindowOf(Head(loc[1].candidates)), loc[1].as_of)

\* C29: get_price_data_for_date yields the close of the record dated as_of
\* and the close of the record after it in the newest-first window, and
\* nothing when the window has no record dated as_of, when that record is
\* the last of the window, or when one of the two closes is missing; on
\* nothing, the turn of scan_entries changes neither the store nor the
\* session, logs no error, counts no alert and goes on with the rest of
\* the candidates.
C29_PricePairOrSkip ==
    /\ [][AbsentCandidateTurn =>
            /\ loc'[1] = [loc[1] EXCEPT !.candidates = Tail(@)]
            /\ pc'[1] = "scan_entries"
            /\ tx' = tx
            /\ store' = store]_vars
    /\ [](\A symbol \in Symbols : \A d \in JobDates :
            LET window == WindowOf(symbol)
                price_data == get_price_data_for_date(eod[symbol], d)
            IN  /\ price_data.raised = ""
                /\ price_data.found
                      <=> PricePairIs(window, d, price_data.as_of_close,
                                      price_data.prev_close)
                /\ ~price_data.found <=> PriceAbsent(window, d))

\* the entry scan of 2025-01-01 has committed; the calendar lists A before
\* B, the window of A has no record before 2025-01-01, and B alone has a
\* position and an alert; no error was logged
C29_Witness ==
    /\ pc[1] = "scan_exits"
    /\ loc[1].as_of = 1
    /\ loc[1].sp500_symbols = {"A", "B"}
    /\ get_earnings_calendar(calendar[1]).value = <<"A", "A", "B">>
    /\ WindowOf("A") = <<Bar(2, 79), Bar(1, 88)>>
    /\ loc[1].errors = {}
    /\ {p.symbol : p \in positions} = {"B"}
    /\ {a.symbol : a \in alerts} = {"B"}

\* the step that commits the exit scan of job 1
ExitScanCommits == pc[1] = "exit_loop" /\ pc'[1] = "done"

\* the exit reason that scan_exits finds for position p on as_of: NoneStr
\* when the close of as_of is absent or no exit condition holds
ExitDecided(p, as_of) ==
    LET close_price == get_close_price(eod[p.symbol], as_of)
    IN  IF ~close_price.found THEN NoneStr
        ELSE ExitReasonOf(ReturnOf(close_price.as_of_close, p.entry_price),
                          HoldingDays(as_of, p.entry_date))

\* C30: at the commit of the exit scan for as_of, every position that was
\* open and for which the scan decides an exit with reason R at close c is
\* CLOSED with exit_date as_of, exit_price c and exit_reason R, its other
\* fields as before, and one EXIT alert with the key
\* EXIT|symbol|entry_date|as_of|R, its symbol and as_of is stored; every
\* other open position is as before and the commit adds no alert for it.
C30_ExitClosesPositionAndAlerts ==
    [][ExitScanCommits =>
        LET as_of == loc[1].as_of
        IN  \A p \in {r \in positions : r.status = OPEN} :
              LET R == ExitDecided(p, as_of)
                  c == get_close_price(eod[p.symbol], as_of).as_of_close
                  event_key == _generate_exit_event_key(p.symbol, p.entry_date,
                                                        as_of, R)
              IN  IF R # NoneStr
                  THEN /\ \E q \in positions' :
                            /\ q.id = p.id
                            /\ q.status = CLOSED
                            /\ q.exit_date = as_of
                            /\ q.exit_price = c
                            /\ q.exit_reason = R
                            /\ q.symbol = p.symbol
                            /\ q.entry_date = p.entry_date
                            /\ q.entry_price = p.entry_price
                       /\ Cardinality({q \in positions' : q.id = p.id}) = 1
                       /\ Cardinality({a \in alerts' : a.event_key = event_key}) = 1
                       /\ \A a \in alerts' :
                            a.event_key = event_key
                                => /\ a.alert_type = EXIT
                                   /\ a.symbol = p.symbol
                                   /\ a.as_of = as_of
                                   /\ a.sent_at = None
                                   /\ a \notin alerts
                  ELSE /\ p \in positions'
                       /\ \A a \in alerts' \ alerts : a.symbol # p.symbol]_vars

\* the exit scan of 2025-02-20 has committed: A, whose window has no record
\* of 2025-01-02, is closed on time at 88.00; B, down 5% after 50 days, is
\* closed on time as well; both alerts are stored
C30_Witness ==
    /\ pc[1] = "done"
    /\ loc[1].as_of = 51
    /\ loc[1].new_exits = 2
    /\ \E p \in positions :
          /\ p.symbol = "A" /\ p.status = CLOSED /\ p.exit_date = 51
          /\ p.exit_price = 88 /\ p.exit_reason = TIME_EXIT
    /\ \E a \in alerts :
          /\ a.event_key = "EXIT|A|2025-01-01|2025-02-20|TIME_EXIT"
          /\ a.alert_type = EXIT /\ a.symbol = "A" /\ a.as_of = 51
    /\ \E a \in alerts : a.event_key = "EXIT|B|2025-01-01|2025-02-20|TIME_EXIT"

(***************************************************************************)
(* Counts, pairs and frames                                                *)
(***************************************************************************)
\* C31: the count that a scan returns is the number of alert rows that its
\* commit adds to the store: at the commit of the entry scan new_entries
\* alerts are added, at the commit of the exit scan new_exits alerts.
C31_CountIsAlertsAdded ==
    [][/\ EntryScanCommits
            => loc[1].new_entries = Cardinality(alerts' \ alerts)
       /\ ExitScanCommits
            => loc[1].new_exits = Cardinality(alerts' \ alerts)]_vars

\* C32: in every committed state there is a position (s, d) if and only if
\* there is an alert with the key ENTRY|s|d.
C32_PositionIffEntryAlert ==
    \A symbol \in Symbols : \A d \in AllDates :
        (PositionsFor(positions, symbol, d) # {})
            <=> (EntryAlertsFor(alerts, symbol, d) # {})

\* a job for 2025-01-02 was killed between the INSERT of the position of A
\* and the INSERT of its alert; the store holds the position and the alert
\* of A of 2025-01-01 and neither of 2025-01-02
C32_Witness ==
    /\ pc[1] = "killed"
    /\ loc[1].as_of = 2
    /\ loc[1].item.symbol = "A"
    /\ loc[1].item.reason = NoneStr
    /\ PositionsFor(positions, "A", 1) # {}
    /\ EntryAlertsFor(alerts, "A", 1) # {}
    /\ PositionsFor(positions, "A", 2) = {}
    /\ EntryAlertsFor(alerts, "A", 2) = {}

\* the alerts whose key starts with EXIT|symbol|entry_date|
ExitAlertsFor(rows, symbol, entry_date) ==
    {a \in rows :
        \E exit_date \in AllDates, exit_reason \in ExitReasons :
            a.event_key = _generate_exit_event_key(symbol, entry_date,
                                                   exit_date, exit_reason)}

\* C33: every position has at most one EXIT alert of its symbol and entry
\* date, and the alert of a CLOSED position has the key of the exit_date
\* and the exit_reason that the position stores.
C33_OneExitAlertPerPosition ==
    \A p \in positions :
        LET exits == ExitAlertsFor(alerts, p.symbol, p.entry_date)
        IN  /\ Cardinality(exits) <= 1
            /\ p.status = CLOSED =>
                  \A a \in exits :
                      a.event_key = _generate_exit_event_key(
                          p.symbol, p.entry_date, p.exit_date, p.exit_reason)

\* C34: every CLOSED position has an exit_date that is not before its
\* entry_date.
C34_ExitNotBeforeEntry ==
    \A p \in positions : p.status = CLOSED => p.exit_date >= p.entry_date

\* C35: at the commit of the exit scan of a job for as_of, every position
\* entered on as_of that was OPEN, those of the job's own entry scan among
\* them, is stored as it was, and no EXIT alert of its symbol and entry
\* date is dated as_of.
C35_NoExitOnEntryDay ==
    [][ExitScanCommits =>
        LET as_of == loc[1].as_of
        IN  \A p \in positions :
              (p.entry_date = as_of /\ p.status = OPEN)
                => /\ p \in positions'
                   /\ \A a \in ExitAlertsFor(alerts', p.symbol, as_of) :
                         a.as_of # as_of]_vars

\* a job for 2025-01-01 has ended: it entered A and B, both are OPEN and
\* it recorded no exit
C35_Witness ==
    /\ pc[1] = "done"
    /\ loc[1].as_of = 1
    /\ loc[1].new_entries = 2
    /\ loc[1].new_exits = 0
    /\ \A symbol \in Symbols :
          \E p \in PositionsFor(positions, symbol, 1) : p.status = OPEN
    /\ \A a \in alerts : a.alert_type = ENTRY

\* a statement of a job handler
JobStatement == pc' # pc \/ loc' # loc \/ tx' # tx

\* C36: no statement of a job changes or removes a stored alert: every row
\* stays with its id, message, created_at and sent_at, so an alert marked
\* sent stays out of the pending alerts; and an alert that a job adds has
\* a key and an id that no stored alert has.
C36_ScansKeepAlerts ==
    [][JobStatement =>
        /\ \A a \in alerts : a \in alerts'
        /\ \A a \in alerts : a.sent_at # None => a \notin {b \in alerts' : b.sent_at = None}
        /\ \A b \in alerts' \ alerts : \A a \in alerts :
              b.event_key # a.event_key /\ b.id # a.id]_vars

\* a job has ended that found the alerts of its date stored, one of them
\* marked sent: it added none and the alert is still marked sent
C36_Witness ==
    /\ pc[1] = "done"
    /\ loc[1].new_entries = 0
    /\ loc[1].new_exits = 0
    /\ hist.alerts = alerts
    /\ \E a \in alerts :
          /\ a.sent_at # None
          /\ a.as_of = loc[1].as_of
          /\ a.event_key = _generate_entry_event_key(a.symbol, loc[1].as_of)

\* C37: the commit of an entry scan leaves every stored position as it is,
\* whatever its status and whatever the provider reports now, and a
\* position that it adds has a symbol and entry date that no stored
\* position has.
C37_EntriesKeepPositions ==
    [][EntryScanCommits =>
        /\ \A p \in positions : p \in positions'
        /\ \A q \in positions' \ positions :
              PositionsFor(positions, q.symbol, q.entry_date) = {}
        /\ \A symbol \in Symbols :
              Cardinality(PositionsFor(positions', symbol, loc[1].as_of)) <= 1]_vars

\* A was entered on 2025-01-01 at 88.00 and stopped out on 2025-01-02; the
\* provider then restated the close of 2025-01-01 to 90.00, a drop of 10%;
\* the entry scan of a new job for 2025-01-01 has committed and the
\* position is CLOSED with entry_price 88.00 as before
C37_Witness ==
    /\ pc[1] = "scan_exits"
    /\ loc[1].as_of = 1
    /\ loc[1].sp500_symbols = {"A", "B"}
    /\ get_earnings_calendar(calendar[1]).value = <<"A", "A", "B">>
    /\ get_price_data_for_date(eod["A"], 1).as_of_close = 90
    /\ QualifiesForEntry(1, "A")
    /\ \E p \in positions :
          /\ p.symbol = "A" /\ p.entry_date = 1 /\ p.entry_price = 88
          /\ p.status = CLOSED /\ p.exit_date = 2 /\ p.exit_reason = STOP_LOSS
    /\ Cardinality(PositionsFor(positions, "A", 1)) = 1

\* the statement that the job of slot 1 is at is a fetch of scan_entries
\* outside its loop, and the fetch raises
UniverseFetchRaises ==
    /\ pc[1] = "get_sp500_constituents"
    /\ get_sp500_constituents(sp500).raised # ""

CalendarFetchRaises ==
    /\ pc[1] = "get_earnings_calendar"
    /\ get_earnings_calendar(calendar[loc[1].as_of]).raised # ""

\* C38: when the universe fetch or the earnings-calendar fetch of
\* scan_entries raises, the job fails at that statement: its session holds
\* no write, it takes no further statement (scan_exits is not run, no count
\* is returned), and the positions and alerts are those it found.
C38_FetchFailureAbortsJob ==
    /\ [][(JobStatement /\ (UniverseFetchRaises \/ CalendarFetchRaises)) =>
            /\ pc'[1] = "failed"
            /\ WritesNothing(tx'[1])
            /\ positions' = positions /\ alerts' = alerts]_vars
    /\ [][pc[1] = "failed" =>
            \/ pc'[1] = "failed" /\ loc'[1] = loc[1] /\ tx'[1] = tx[1]
                  /\ positions' = positions /\ alerts' = alerts
            \/ pc'[1] = "get_sp500_symbols" /\ runs' = runs + 1]_vars
    /\ [](pc[1] = "failed" =>
            /\ positions = hist.positions /\ alerts = hist.alerts
            /\ loc[1].new_entries = 0 /\ loc[1].new_exits = 0
            /\ loc[1].open_positions = <<>>)

\* A is held since 2025-01-01 at 88.00 and closed 79.00 on 2025-01-02, a
\* stop loss; the job for 2025-01-02 has failed on a rate-limited earnings
\* calendar and the position is still OPEN, without an EXIT alert
C38_Witness ==
    /\ pc[1] = "failed"
    /\ loc[1].as_of = 2
    /\ get_earnings_calendar(calendar[2]).raised = "FMPRateLimitError"
    /\ \E p \in positions :
          /\ p.symbol = "A" /\ p.entry_date = 1 /\ p.status = OPEN
          /\ ExitDecided(p, 2) = STOP_LOSS
    /\ ExitAlertsFor(alerts, "A", 1) = {}

\* the job of slot 1 is within a refresh of the cache
InRefresh ==
    pc[1] \in {"cache_delete", "cache_delete_wait", "cache_insert",
               "cache_insert_wait"}

\* C39: the committed cache changes only at the COMMIT of a refresh, from
\* the content before the refresh to the whole fetched list; a refresh
\* that fails leaves the committed cache as it is and nothing of it in the
\* session, so the cache is never seen emptied or partly filled.
C39_RefreshIsAtomic ==
    [][/\ symbols_cache' # symbols_cache =>
            /\ RefreshCommits
            /\ loc[1].todo = <<>>
            /\ {c.symbol : c \in symbols_cache'} = Range(loc[1].symbols)
       /\ (InRefresh /\ pc'[1] = "failed") =>
            /\ symbols_cache' = symbols_cache
            /\ NoCacheWrite(tx'[1])]_vars

\* the refresh over a stale cache of A and B failed at the second insert
\* of B, after the DELETE and the first insert; the cache still holds the
\* entries of A and B of the earlier refresh
C39_Witness ==
    /\ pc[1] = "failed"
    /\ loc[1].symbols = <<"B", "B", "A">>
    /\ loc[1].todo = <<"B", "A">>
    /\ CachedSymbols = {"A", "B"}
    /\ ~CacheFresh
    /\ \A c \in symbols_cache : c.updated_at < clock
    /\ NoCacheWrite(tx[1])

====
